---- MODULE Spec2Model ----
(***************************************************************************)
(* SpeedPing probe engine: the sample ring (model.go), the per-host probe  *)
(* loop with its pending-reply tracker and deadline timers (ping.go), and   *)
(* the start/stop/restart control of the window (UI.StartPinging,           *)
(* UI.StopPinging, UI.restartPinging).                                      *)
(*                                                                         *)
(* Time is in milliseconds.  The clock moves over the instants of Instants; *)
(* a timer never fires before its deadline but may fire any time after it,  *)
(* and a handler may be delayed between any two of its lock sections.       *)
(***************************************************************************)
EXTENDS Integers, Sequences, FiniteSets, TLC

\* ---------------------------------------------------------------- bounds
\* probes the pinger of the loop sends: sequence numbers 0 .. MaxProbes-1
MaxProbes == 2
\* with restarts: contexts (loop generations) the window creates for the host, and
\* the probes their pingers send in all
MaxLoops == 2
RestartProbes == 1
\* ring capacities of the probe engine: 1 .. MaxCap
MaxCap == 2
\* ring capacities and pushes of the ring-only specification
RingMaxCap == 3
MaxPush == 5
\* two hosts probed at once: the probes their two pingers send in all
HostsProbes == 2
\* registry: hosts it starts with, operations (add, remove, clear) the window
\* makes, listings taken, pushes of the probe loop, and the capacity of the rings
RegHosts == 2
MaxRegOps == 2
MaxLists == 2
MaxRegPushes == 2
RegRingCap == 1
\* concurrent ring: goroutines that write, write operations (Push, UpdateAt) they
\* start in all, and snapshots taken
MaxWriters == 2
MaxWrites == 3
MaxSnaps == 2
MaxTimers == 2
MaxReaders == 2
EventsCap == 2
MaxLines == 2
MaxErrLines == 1
MbpsCap == 2
MaxAppends == 4
MaxPaints == 2

\* the bandwidths an interval reports (Mbps)
MbpsValues == {0, 607}

\* the instants the clock visits
Instants == {0, 50, 300, 400, 650}

\* ------------------------------------------------------- program constants
SampleOK == 0
SampleLoss == 1
SampleLate == 2
HostStopped == 0
HostRunning == 1
\* ProbingBackend.MaxRTT as the end-to-end scenario sets it (the floor of the
\* value UI.StartPinging computes) and ProbingBackend.GraceLate
MaxRTT == 300
GraceLate == 100
\* the capacity NewAppModel gives the slice of hosts
HostsCap == 8
\* the latency a LOSS sample carries
LossMS == -1
\* Ring.Push on a ring without storage, and pending.idx before a LOSS is pushed
NoIdx == -1
\* the zero time.Time of a slot never written
ZeroTime == -1

Loops == 1 .. MaxLoops
\* the goroutines that write one ring at a time: the deadline callbacks and the
\* receive handler of its loop
ConcWriters == 1 .. MaxWriters
\* the backing arrays a slice can refer to: none (a nil slice), r.data of the ring,
\* or heap[a] for a >= 1
NilArr == -1
LiveArr == 0
\* the nil *Host and the nil *Ring
NilHost == 0
NilRing == 0
Seqs == 0 .. (MaxProbes - 1)

\* ------------------------------------------------------------------- ring
\* Sample{T, MS, Seq, State}
Sample(t, ms, seq, st) == [T |-> t, MS |-> ms, Seq |-> seq, State |-> st]

\* the zero value of Sample that make([]Sample, capacity) fills the storage with
ZeroSample == Sample(ZeroTime, 0, 0, SampleOK)

\* len(r.data)
Cap(r) == Cardinality(DOMAIN r.data)

\* NewRing(capacity)
NewRing(capacity) ==
    [data |-> [i \in 0 .. (capacity - 1) |-> ZeroSample], head |-> 0, count |-> 0]

\* Ring.Push: the ring after the push
PushRing(r, s) ==
    IF Cap(r) = 0
    THEN r
    ELSE [data  |-> [r.data EXCEPT ![r.head] = s],
          head  |-> (r.head + 1) % Cap(r),
          count |-> IF r.count < Cap(r) THEN r.count + 1 ELSE r.count]

\* mutant of PushIdx: the cursor is returned whatever the capacity
PushIdxHead(r) == r.head

\* mutant of PushIdx: the index returned is the cursor after the push
PushIdxAfter(r) == IF Cap(r) = 0 THEN NoIdx ELSE (r.head + 1) % Cap(r)

\* Ring.Push: the index it returns
PushIdx(r) == IF Cap(r) = 0 THEN NoIdx ELSE r.head

\* mutant of LateUpdate: the latency of the LOSS is left in the sample
LateUpdateKeepsMS(rtt, t) == [State |-> SampleLate, T |-> t]

\* the mutator func(*Sample) of OnRecv's grace branch: the fields it assigns
LateUpdate(rtt, t) == [State |-> SampleLate, MS |-> rtt, T |-> t]

\* applying a mutator to one sample
Mutate(s, upd) == [f \in DOMAIN s |-> IF f \in DOMAIN upd THEN upd[f] ELSE s[f]]

\* mutant of UpdateApplies: the count is not looked at
UpdateAppliesInCap(r, idx) == ~(idx < 0 \/ idx >= Cap(r))

\* Ring.UpdateAt: does it reach the mutator call
UpdateApplies(r, idx) == ~(r.count = 0 \/ idx < 0 \/ idx >= Cap(r))

\* Ring.UpdateAt
UpdateAt(r, idx, upd) ==
    IF UpdateApplies(r, idx)
    THEN [r EXCEPT !.data[idx] = Mutate(@, upd)]
    ELSE r

\* Ring.Snapshot(nil): the retained samples, oldest first
\* mutant of Snapshot: the copy starts at slot 0
SnapshotFromZero(r) ==
    IF r.count = 0 THEN << >> ELSE [i \in 1 .. r.count |-> r.data[(i - 1) % Cap(r)]]

Snapshot(r) ==
    IF r.count = 0
    THEN << >>
    ELSE LET n == r.count
             start == (r.head - r.count + Cap(r)) % Cap(r)
         IN  [i \in 1 .. n |-> r.data[(start + (i - 1)) % Cap(r)]]

\* mutant of MsOf: the microseconds are not scaled to milliseconds
MsOfMicros(rtt) == rtt * 1000

\* float64(rtt.Microseconds()) / 1000.0 of a round-trip time of whole milliseconds
MsOf(rtt) == ((rtt * 1000) \div 1000)

\* ------------------------------------------------------------------ state
VARIABLES
    now,        \* the clock (ms)
    buf,        \* Host.buf: the ring of the host
    hostState,  \* Host.State
    running,    \* UI.running
    cancel,     \* UI.cancel: 0 is nil, g the CancelFunc of context g
    gens,       \* contexts created so far
    ctxDone,    \* ctxDone[g]: context g is cancelled
    rfh,        \* rfh[g]: position of the goroutine running RunForHost(ctx g, h)
    result,     \* result[g]: what RunForHost returned
    pstop,      \* pstop[g]: pinger.Stop() was called
    pinger,     \* pinger[g]: the goroutine of pinger.Run and the handler it is in
    nextSeq,    \* nextSeq[g]: packets sent so far (the next sequence number)
    sentAt,     \* sentAt[g][s]: when packet s was sent and its timer armed
    timer,      \* timer[g][s]: the time.Timer of packet s
    pends,      \* pends[g]: the map seq -> pending{idx, pushed}
    replied,    \* replied[g]: sequence numbers whose reply was delivered to OnRecv
    own,        \* history: own[i] is the <<loop, seq>> that last pushed slot i
    log,        \* history: log[g][s] is what loop g recorded for s, in order
    lastOp,     \* history: the last ring operation of the engine
    hist,       \* history of the ring-only specification: the samples pushed
    probesLeft, \* packets the pingers may still send
    loopsLeft   \* contexts the window may still create

\* the ring under concurrent callers: writers inside Push / UpdateAt, a reader
\* inside Snapshot, and the memory the snapshots live in
VARIABLES
    rmu,        \* Ring.mu: w is the writer holding it (0: none), r the readers
    wr,         \* wr[w]: position of writer w inside Ring.Push or Ring.UpdateAt
    rd,         \* position of the reader inside Ring.Snapshot
    heap,       \* heap[a]: the array a that a make([]Sample, n) allocated
    held,       \* the snapshots returned so far: the slice and, as history, its
                \* content at the return and the rings committed while it was taken
    commits,    \* history: the ring after the last complete write operation
    writes      \* write operations started so far

conc == << rmu, wr, rd, heap, held, commits, writes >>

\* a second host of the registry, when there is one, and the host each goroutine
\* of StartPinging was started for
VARIABLES
    loopProbes, \* packets one pinger may send
    tgt,        \* tgt[g]: the host (1 or 2) that is the parameter h of goroutine g
    peerBuf,    \* Host.buf of the second host
    peerState   \* Host.State of the second host

peer == << peerBuf, peerState >>

\* the registry of hosts (AppModel) under concurrent callers, the Host objects and
\* their rings
VARIABLES
    hosts,      \* AppModel.hosts: the slice header, arr its backing array, len
    harrs,      \* harrs[a]: the array a of *Host; 0 is a nil pointer
    hobj,       \* hobj[h]: the Host object h
    rings,      \* rings[h]: the Ring that hobj[h].buf points to
    rlock,      \* rlock[h]: Ring.mu of rings[h]
    mmu,        \* AppModel.mu
    mt,         \* position of the window's thread inside AddHost / RemoveHostAt
    ls,         \* position of a goroutine that lists the hosts and reads their rings
    pu,         \* position of the probe loop of the first host inside Ring.Push
    lists,      \* the lists Hosts() returned so far, with history
    shots,      \* the snapshots the lister obtained, as history
    regHist,    \* history: the registry content after the last complete operation
    lastReg,    \* history: the last complete operation of the registry
    fault,      \* a nil pointer was dereferenced
    regOps,     \* registry operations started so far
    pushes      \* pushes of the probe loop so far

reg == << hosts, harrs, hobj, rings, rlock, mmu, mt, ls, pu, lists, shots, regHist,
          lastReg, fault, regOps, pushes >>

\* the options of the probe loop
VARIABLES
    backend,    \* UI.backend: the ProbingBackend the window made (durations in ms)
    pb          \* the receiver of RunForHost, a copy: as given and after the defaults

probing == << backend, pb >>

\* the handlers of the probe loop at the grain of their lock operations
VARIABLES
    mu,         \* the mutex of RunForHost's tracker: the thread holding it
    cb,         \* cb[s]: the timer of packet s and the position of its callback
    pg,         \* the prober's goroutine: its position inside OnSend / OnRecv
    cx,         \* the position of RunForHost at its select and its cancel branch
    paint,       \* paint[r]: paint routine r inside Ring.Snapshot, its calls so far
    regd        \* the tracker: the map seq -> pending{idx, pushed}

locks == << mu, cb, pg, cx, paint, regd >>

\* the Traceroute tab and one run of the traceroute wrapper
VARIABLES
    tab,        \* the tab: Start / Stop enabled, cancel set, the status, table rows
    run,        \* the run: its context, the subprocess, the lines in its pipes
    events,     \* the events channel of Run: the kinds of the buffered events
    evClosed,   \* close(events) was executed
    wk,         \* the positions of Run's goroutines and of the tab's consumer
    got         \* history: the kinds of the events the consumer received

tracing == << tab, run, events, evClosed, wk, got >>

\* the ring of the bandwidth graph and the two threads that use it
VARIABLES
    mring,      \* SpeedGraphWidget.ring: data, head, count
    mpush,      \* the interval consumer inside mbpsRing.push, and its sample
    mpaint,     \* the main thread inside mbpsRing.snapshot: n, start, i, dst
    mshots,     \* history: the slices snapshot returned
    appended    \* calls of AppendMbps so far

bw == << mring, mpush, mpaint, mshots, appended >>

\* the state outside the probe loop and its rings
extra == << locks, tracing, bw >>

\* the state outside the probe engine
aside == << conc, tgt, loopProbes, reg, probing, extra >>

vars == << now, buf, hostState, running, cancel, gens, ctxDone, rfh, result, pstop,
           pinger, nextSeq, sentAt, timer, pends, replied, own, log, lastOp, hist,
           probesLeft, loopsLeft, aside, peer >>

\* the state of the engine but for the ring and its history
ctl == << now, hostState, running, cancel, gens, ctxDone, rfh, result, pstop, pinger,
          nextSeq, sentAt, timer, pends, replied, log, hist, probesLeft, loopsLeft,
          tgt, loopProbes, peer, probing, extra >>


NoOwner == << 0, 0 >>
NoOp == [kind |-> "none", g |-> 0, s |-> 0, idx |-> NoIdx, applied |-> FALSE]

\* the handler-free pinger goroutine; pc is "off" before pinger.Run starts
PingerAt(pc) ==
    [pc |-> pc, seq |-> 0, rtt |-> 0, now |-> 0, had |-> FALSE, pushed |-> FALSE,
     idx |-> NoIdx]

\* nobody is inside an operation of the ring
WriterAt(pc) ==
    [pc |-> pc, smp |-> ZeroSample, idx |-> NoIdx, upd |-> LateUpdate(0, 0), f |-> 0]

ReaderAt(pc) ==
    [pc |-> pc, n |-> 0, start |-> 0, i |-> 0, dst |-> [arr |-> NilArr, n |-> 0]]

InitConc ==
    /\ rmu = [w |-> 0, r |-> 0]
    /\ wr = [w \in ConcWriters |-> WriterAt("idle")]
    /\ rd = ReaderAt("idle")
    /\ heap = << >>
    /\ held = << >>
    /\ writes = 0

\* the window's thread, the lister and the probe loop outside every operation
MutatorAt(pc) == [pc |-> pc, h |-> 0, idx |-> 0, i |-> 0, before |-> << >>]

ListerAt(pc) == [pc |-> pc, out |-> [arr |-> NilArr, n |-> 0], i |-> 0]

\* &Host{Name, Addr, State: HostStopped, buf: NewRing(ringCap)}; the n-th host
\* made has the name and address n, and ColorI is still zero
NewHost(n) == [Name |-> n, Addr |-> n, State |-> HostStopped, ColorI |-> 0, buf |-> n]

\* the hosts the slice lists, in order
Content(hs) == [i \in 1 .. hs.len |-> harrs[hs.arr][i - 1]]

\* NewAppModel and then AddHost for each of the first RegHosts hosts
InitReg ==
    /\ hosts = [arr |-> 1, len |-> RegHosts]
    /\ harrs = << [i \in 0 .. (HostsCap - 1) |-> IF i < RegHosts THEN i + 1 ELSE NilHost] >>
    /\ hobj = [h \in 1 .. RegHosts |-> [NewHost(h) EXCEPT !.ColorI = h - 1]]
    /\ rings = [h \in 1 .. RegHosts |-> NewRing(RegRingCap)]
    /\ rlock = [h \in 1 .. RegHosts |-> [w |-> 0, r |-> 0]]
    /\ mmu = [w |-> 0, r |-> 0]
    /\ mt = MutatorAt("idle")
    /\ ls = ListerAt("idle")
    /\ pu = "idle"
    /\ lists = << >>
    /\ shots = << >>
    /\ regHist = [last |-> [i \in 1 .. RegHosts |-> i], seen |-> {}]
    /\ lastReg = [op |-> "none", ok |-> FALSE, idx |-> 0, before |-> << >>]
    /\ fault = FALSE
    /\ regOps = 0
    /\ pushes = 0

\* ProbingBackend{}: the zero value of UI.backend before the first StartPinging
ZeroBackend == [Interval |-> 0, MaxRTT |-> 0, GraceLate |-> 0]

\* no RunForHost has been entered
NoBackend == [given |-> ZeroBackend, used |-> ZeroBackend, set |-> FALSE]

\* newMbpsRing and the goroutines around the bandwidth graph, outside every call
mbpsSample(t, v) == [T |-> t, Mbps |-> v]
newMbpsRing(capacity) ==
    [data |-> [i \in 0 .. (capacity - 1) |-> mbpsSample(ZeroTime, 0)], head |-> 0,
     count |-> 0]

InitMbps ==
    /\ mring = newMbpsRing(MbpsCap)
    /\ mpush = [pc |-> "idle", s |-> mbpsSample(ZeroTime, 0)]
    /\ mpaint = [pc |-> "idle", n |-> 0, start |-> 0, i |-> 0, dst |-> << >>]
    /\ mshots = << >>
    /\ appended = 0

\* the Traceroute tab before a run: Start enabled, Stop disabled, nothing running
TabAt(start, stop, cn, status, rows) ==
    [start |-> start, stop |-> stop, cancel |-> cn, status |-> status, rows |-> rows]

NoWorkers ==
    [stdout |-> "none", stderr |-> "none", wait |-> "none", closer |-> "none",
     consumer |-> "none"]

InitTrace ==
    /\ tab = TabAt(TRUE, FALSE, FALSE, "Idle.", 0)
    /\ run = [ctx |-> "none", cmd |-> "none", out |-> 0, err |-> 0,
              outLeft |-> 0, errLeft |-> 0]
    /\ events = << >>
    /\ evClosed = FALSE
    /\ wk = NoWorkers
    /\ got = {}

\* the threads of the probe loop and of the paint routines, none started
LockSeqs == 0 .. (MaxTimers - 1)
Painters == 1 .. MaxReaders

NoHolder == << "none", 0 >>
CallbackOf(s) == << "cb", s >>
ProberThread == << "pg", 0 >>
CancelThread == << "cx", 0 >>

\* the writer a thread is for Ring.mu
RingWriterOf(t) == IF t = ProberThread THEN MaxTimers + 1 ELSE t[2] + 1

PainterAt(pc, n) == [pc |-> pc, n |-> n]
\* the record a lookup of the tracker found, and none
PendingOf(had, idx, pushed) == [had |-> had, idx |-> idx, pushed |-> pushed]
NoPending == PendingOf(FALSE, NoIdx, FALSE)

ProberAt(pc, s) == [pc |-> pc, s |-> s, p |-> NoPending]

InitLocks ==
    /\ mu = NoHolder
    /\ cb = [s \in LockSeqs |-> "unarmed"]
    /\ pg = ProberAt("idle", 0)
    /\ cx = "select"
    /\ paint = [r \in Painters |-> PainterAt("idle", 0)]
    /\ regd = << >>

InitEngine ==
    /\ InitConc
    /\ InitLocks
    /\ InitTrace
    /\ InitMbps
    /\ InitReg
    /\ hostState = HostStopped
    /\ running = FALSE
    /\ cancel = 0
    /\ gens = 0
    /\ ctxDone = [g \in Loops |-> FALSE]
    /\ rfh = [g \in Loops |-> "none"]
    /\ result = [g \in Loops |-> "none"]
    /\ pstop = [g \in Loops |-> FALSE]
    /\ pinger = [g \in Loops |-> PingerAt("off")]
    /\ nextSeq = [g \in Loops |-> 0]
    /\ sentAt = [g \in Loops |-> [s \in Seqs |-> 0]]
    /\ timer = [g \in Loops |-> [s \in Seqs |-> "none"]]
    /\ pends = [g \in Loops |-> << >>]
    /\ replied = [g \in Loops |-> {}]
    /\ log = [g \in Loops |-> [s \in Seqs |-> << >>]]
    /\ lastOp = NoOp
    /\ hist = << >>
    /\ backend = ZeroBackend
    /\ pb = NoBackend

\* AppModel.AddHost(name, addr, ringCap): the fresh ring of the host
HostRingOf(c) ==
    /\ buf = NewRing(c)
    /\ own = [i \in 0 .. (c - 1) |-> NoOwner]
    /\ commits = [last |-> NewRing(c), seen |-> {}]
    /\ now = 0
    /\ tgt = [g \in Loops |-> 1]
    /\ loopProbes = MaxProbes
    /\ peerBuf = NewRing(0)
    /\ peerState = HostStopped

\* the hosts the window adds have a ring of one capacity or more
InitHostRing(maxCap) == \E c \in 1 .. maxCap : HostRingOf(c)

\* the host AppModel.AddHost(name, addr, ringCap) made, not yet probed; the window
\* starts one loop for it
Init ==
    /\ InitEngine
    /\ InitHostRing(MaxCap)
    /\ probesLeft = MaxProbes
    /\ loopsLeft = 1

\* the same host under a window that starts, stops and restarts its loops
InitRestart ==
    /\ InitEngine
    /\ InitHostRing(MaxCap)
    /\ probesLeft = RestartProbes
    /\ loopsLeft = MaxLoops

\* ------------------------------------------------- ring use by the engine
\* goroutine g was started for the second host: the h it was passed
OnPeer(g) == g \in DOMAIN tgt /\ tgt[g] = 2

\* h.buf of the host goroutine g was started for
RingOf(g) == IF OnPeer(g) THEN peerBuf ELSE buf

\* h.buf.Push(sample) called for probe s of loop g
RingPushBy(g, s, smp) ==
    IF OnPeer(g)
    THEN /\ peerBuf' = PushRing(peerBuf, smp)
         /\ lastOp' = [kind |-> "push", g |-> g, s |-> s, idx |-> PushIdx(peerBuf),
                       applied |-> Cap(peerBuf) # 0]
         /\ UNCHANGED << buf, own >>
    ELSE /\ buf' = PushRing(buf, smp)
         /\ own' = IF Cap(buf) = 0 THEN own ELSE [own EXCEPT ![buf.head] = << g, s >>]
         /\ lastOp' = [kind |-> "push", g |-> g, s |-> s, idx |-> PushIdx(buf),
                       applied |-> Cap(buf) # 0]
         /\ UNCHANGED peerBuf

\* h.buf.UpdateAt(idx, mutator) called for probe s of loop g
RingUpdateBy(g, s, idx, upd) ==
    IF OnPeer(g)
    THEN /\ peerBuf' = UpdateAt(peerBuf, idx, upd)
         /\ lastOp' = [kind |-> "update", g |-> g, s |-> s, idx |-> idx,
                       applied |-> UpdateApplies(peerBuf, idx)]
         /\ UNCHANGED << buf, own >>
    ELSE /\ buf' = UpdateAt(buf, idx, upd)
         /\ own' = own
         /\ lastOp' = [kind |-> "update", g |-> g, s |-> s, idx |-> idx,
                       applied |-> UpdateApplies(buf, idx)]
         /\ UNCHANGED peerBuf

\* log[g][s] with one more record: what happened, the ring index it used and the
\* time.Now() it read
Logged(g, s, what, idx, t) ==
    [log EXCEPT ![g][s] = Append(@, [ev |-> what, idx |-> idx, t |-> t])]

\* map assignment m[k] = v and delete(m, k)
MapPut(m, k, v) == [x \in (DOMAIN m) \cup {k} |-> IF x = k THEN v ELSE m[x]]
\* mutant of MapDel: the record is left in the map
MapDelKept(m, k) == m
MapDel(m, k) == [x \in (DOMAIN m) \ {k} |-> m[x]]
EmptyMap == [x \in {} |-> 0]

\* ------------------------------------------------------------------ clock
TickOver(instants) ==
    /\ \E t \in instants :
          /\ t > now
          /\ \A u \in instants : u > now => t <= u
          /\ now' = t
    /\ UNCHANGED << buf, hostState, running, cancel, gens, ctxDone, rfh, result, pstop,
                    pinger, nextSeq, sentAt, timer, pends, replied, own, log, lastOp,
                    hist, probesLeft, loopsLeft >>
    /\ UNCHANGED aside
    /\ UNCHANGED peer

Tick == TickOver(Instants)

\* ------------------------------------------------------ window: start/stop
\* the context StartPinging creates and the goroutine it starts for the host
StartLoop(g) ==
    /\ loopsLeft > 0
    /\ loopsLeft' = loopsLeft - 1
    /\ gens' = g
    /\ cancel' = g
    /\ running' = TRUE
    /\ hostState' = HostRunning
    /\ rfh' = [rfh EXCEPT ![g] = "spawned"]

\* UI.StartPinging
StartPinging ==
    /\ ~running
    /\ StartLoop(gens + 1)
    /\ UNCHANGED << now, buf, ctxDone, result, pstop, pinger, nextSeq, sentAt, timer,
                    pends, replied, own, log, lastOp, hist, probesLeft >>
    /\ UNCHANGED aside
    /\ UNCHANGED peer

\* the fields of the window that start and stop use, and the contexts
UIState == [running |-> running, cancel |-> cancel, ctxDone |-> ctxDone]

\* mutant of StopPingingOn: the cancel handle is not cleared
StopPingingKeepsCancel(ui) ==
    IF ~ui.running
    THEN ui
    ELSE [running |-> FALSE,
          cancel  |-> ui.cancel,
          ctxDone |-> IF ui.cancel # 0
                      THEN [ui.ctxDone EXCEPT ![ui.cancel] = TRUE] ELSE ui.ctxDone]

\* UI.StopPinging as a function of those fields: the early return when not running,
\* else cancel() if the handle is not nil, the handle cleared, running = false
StopPingingOn(ui) ==
    IF ~ui.running
    THEN ui
    ELSE [running |-> FALSE,
          cancel  |-> 0,
          ctxDone |-> IF ui.cancel # 0
                      THEN [ui.ctxDone EXCEPT ![ui.cancel] = TRUE] ELSE ui.ctxDone]

\* UI.StopPinging
StopPinging ==
    /\ ctxDone' = StopPingingOn(UIState).ctxDone
    /\ cancel' = StopPingingOn(UIState).cancel
    /\ running' = StopPingingOn(UIState).running
    /\ UNCHANGED << now, buf, hostState, gens, rfh, result, pstop, pinger, nextSeq,
                    sentAt, timer, pends, replied, own, log, lastOp, hist, probesLeft,
                    loopsLeft >>
    /\ UNCHANGED aside
    /\ UNCHANGED peer

\* UI.restartPinging, which its callers run only while ui.running
restartPinging ==
    /\ running
    /\ ctxDone' = IF cancel # 0 THEN [ctxDone EXCEPT ![cancel] = TRUE] ELSE ctxDone
    /\ StartLoop(gens + 1)
    /\ UNCHANGED << now, buf, result, pstop, pinger, nextSeq, sentAt, timer, pends,
                    replied, own, log, lastOp, hist, probesLeft >>
    /\ UNCHANGED aside
    /\ UNCHANGED peer

\* --------------------------------------------------- RunForHost goroutine
\* NewPinger succeeds: hooks installed, pinger.Run started, the select reached
RfhStart(g) ==
    /\ rfh[g] = "spawned"
    /\ rfh' = [rfh EXCEPT ![g] = "select"]
    /\ pinger' = [pinger EXCEPT ![g] = PingerAt("idle")]
    /\ UNCHANGED << now, buf, hostState, running, cancel, gens, ctxDone, result, pstop,
                    nextSeq, sentAt, timer, pends, replied, own, log, lastOp, hist,
                    probesLeft, loopsLeft >>
    /\ UNCHANGED aside
    /\ UNCHANGED peer

\* mutant of RfhSetupFail: the error is returned but the prober is started anyway
RfhSetupFailStarts(g) ==
    /\ rfh[g] = "spawned"
    /\ rfh' = [rfh EXCEPT ![g] = "returned"]
    /\ result' = [result EXCEPT ![g] = "setupErr"]
    /\ pinger' = [pinger EXCEPT ![g] = PingerAt("idle")]
    /\ UNCHANGED << now, buf, hostState, running, cancel, gens, ctxDone, pstop,
                    nextSeq, sentAt, timer, pends, replied, own, log, lastOp, hist,
                    probesLeft, loopsLeft >>
    /\ UNCHANGED aside
    /\ UNCHANGED peer

\* NewPinger fails: RunForHost returns its error
RfhSetupFail(g) ==
    /\ rfh[g] = "spawned"
    /\ rfh' = [rfh EXCEPT ![g] = "returned"]
    /\ result' = [result EXCEPT ![g] = "setupErr"]
    /\ UNCHANGED << now, buf, hostState, running, cancel, gens, ctxDone, pstop, pinger,
                    nextSeq, sentAt, timer, pends, replied, own, log, lastOp, hist,
                    probesLeft, loopsLeft >>
    /\ UNCHANGED aside
    /\ UNCHANGED peer

\* case <-ctx.Done(): pinger.Stop()
RfhCancelStop(g) ==
    /\ rfh[g] = "select"
    /\ ctxDone[g]
    /\ pstop' = [pstop EXCEPT ![g] = TRUE]
    /\ rfh' = [rfh EXCEPT ![g] = "stopping"]
    /\ UNCHANGED << now, buf, hostState, running, cancel, gens, ctxDone, result, pinger,
                    nextSeq, sentAt, timer, pends, replied, own, log, lastOp, hist,
                    probesLeft, loopsLeft >>
    /\ UNCHANGED aside
    /\ UNCHANGED peer

\* case <-ctx.Done(): the locked cleanup, then return ctx.Err()
RfhCancelClean(g) ==
    /\ rfh[g] = "stopping"
    /\ timer' = [timer EXCEPT ![g] =
                    [s \in Seqs |-> IF s \in DOMAIN pends[g] /\ timer[g][s] = "armed"
                                    THEN "stopped" ELSE timer[g][s]]]
    /\ pends' = [pends EXCEPT ![g] = EmptyMap]
    /\ result' = [result EXCEPT ![g] = "canceled"]
    /\ rfh' = [rfh EXCEPT ![g] = "returned"]
    /\ UNCHANGED << now, buf, hostState, running, cancel, gens, ctxDone, pstop, pinger,
                    nextSeq, sentAt, replied, own, log, lastOp, hist, probesLeft,
                    loopsLeft >>
    /\ UNCHANGED aside
    /\ UNCHANGED peer

\* mutant of RfhErr: the failure of the prober is returned as a cancellation
RfhErrAsCancel(g) ==
    /\ rfh[g] = "select"
    /\ pinger[g].pc = "failed"
    /\ result' = [result EXCEPT ![g] = "canceled"]
    /\ rfh' = [rfh EXCEPT ![g] = "returned"]
    /\ UNCHANGED << now, buf, hostState, running, cancel, gens, ctxDone, pstop, pinger,
                    nextSeq, sentAt, timer, pends, replied, own, log, lastOp, hist,
                    probesLeft, loopsLeft >>
    /\ UNCHANGED aside
    /\ UNCHANGED peer

\* case err := <-errCh: return err, the value pinger.Run returned: its error, or
\* nil when it ended by itself
RfhErr(g) ==
    /\ rfh[g] = "select"
    /\ pinger[g].pc \in {"failed", "ended"}
    /\ result' = [result EXCEPT ![g] = IF pinger[g].pc = "failed" THEN "err" ELSE "nil"]
    /\ rfh' = [rfh EXCEPT ![g] = "returned"]
    /\ UNCHANGED << now, buf, hostState, running, cancel, gens, ctxDone, pstop, pinger,
                    nextSeq, sentAt, timer, pends, replied, own, log, lastOp, hist,
                    probesLeft, loopsLeft >>
    /\ UNCHANGED aside
    /\ UNCHANGED peer

\* the goroutine of StartPinging after RunForHost returned: h.State = HostStopped
GoExit(g) ==
    /\ rfh[g] = "returned"
    /\ hostState' = IF OnPeer(g) THEN hostState ELSE HostStopped
    /\ peerState' = IF OnPeer(g) THEN HostStopped ELSE peerState
    /\ peerBuf' = peerBuf
    /\ rfh' = [rfh EXCEPT ![g] = "exited"]
    /\ UNCHANGED << now, buf, running, cancel, gens, ctxDone, result, pstop, pinger,
                    nextSeq, sentAt, timer, pends, replied, own, log, lastOp, hist,
                    probesLeft, loopsLeft >>
    /\ UNCHANGED aside

\* ------------------------------------------------------- pinger goroutine
\* pinger.Run ends with an error of the probing mechanism
PingerFail(g) ==
    /\ pinger[g].pc = "idle"
    /\ ~pstop[g]
    /\ pinger' = [pinger EXCEPT ![g] = PingerAt("failed")]
    /\ UNCHANGED << now, buf, hostState, running, cancel, gens, ctxDone, rfh, result,
                    pstop, nextSeq, sentAt, timer, pends, replied, own, log, lastOp,
                    hist, probesLeft, loopsLeft >>
    /\ UNCHANGED aside
    /\ UNCHANGED peer

\* OnSend, first half: t := time.AfterFunc(pb.MaxRTT, callback)
SendArm(g) ==
    /\ pinger[g].pc = "idle"
    /\ ~pstop[g]
    /\ probesLeft > 0
    /\ nextSeq[g] < loopProbes
    /\ probesLeft' = probesLeft - 1
    /\ LET s == nextSeq[g] IN
          /\ nextSeq' = [nextSeq EXCEPT ![g] = s + 1]
          /\ sentAt' = [sentAt EXCEPT ![g][s] = now]
          /\ timer' = [timer EXCEPT ![g][s] = "armed"]
          /\ pinger' = [pinger EXCEPT ![g] = [PingerAt("send") EXCEPT !.seq = s]]
    /\ UNCHANGED << now, buf, hostState, running, cancel, gens, ctxDone, rfh, result,
                    pstop, pends, replied, own, log, lastOp, hist, loopsLeft >>
    /\ UNCHANGED aside
    /\ UNCHANGED peer

\* OnSend, second half: pends[seq] = &pending{timer: t, idx: -1, pushed: false}
SendRegister(g) ==
    /\ pinger[g].pc = "send"
    /\ pends' = [pends EXCEPT ![g] =
                    MapPut(@, pinger[g].seq, [idx |-> NoIdx, pushed |-> FALSE])]
    /\ pinger' = [pinger EXCEPT ![g] = PingerAt("idle")]
    /\ UNCHANGED << now, buf, hostState, running, cancel, gens, ctxDone, rfh, result,
                    pstop, nextSeq, sentAt, timer, replied, own, log, lastOp, hist,
                    probesLeft, loopsLeft >>
    /\ UNCHANGED aside
    /\ UNCHANGED peer

\* the timer of packet s expires, MaxRTT or more after it was armed: the runtime
\* starts the callback in its own goroutine and Stop() no longer prevents it
TimerExpire(g, s) ==
    /\ timer[g][s] = "armed"
    /\ now >= sentAt[g][s] + MaxRTT
    /\ timer' = [timer EXCEPT ![g][s] = "running"]
    /\ UNCHANGED << now, buf, hostState, running, cancel, gens, ctxDone, rfh, result,
                    pstop, pinger, nextSeq, sentAt, pends, replied, own, log, lastOp,
                    hist, probesLeft, loopsLeft >>
    /\ UNCHANGED aside
    /\ UNCHANGED peer

\* the callback of time.AfterFunc, its whole body under mu: the deadline of packet s
DeadlineFire(g, s) ==
    /\ timer[g][s] = "running"
    /\ timer' = [timer EXCEPT ![g][s] = "fired"]
    /\ IF s \in DOMAIN pends[g]
       THEN /\ RingPushBy(g, s, Sample(now, LossMS, s, SampleLoss))
            /\ pends' = [pends EXCEPT ![g][s] = [idx |-> PushIdx(RingOf(g)), pushed |-> TRUE]]
            /\ log' = Logged(g, s, "loss", PushIdx(RingOf(g)), now)
       ELSE UNCHANGED << buf, peerBuf, own, lastOp, pends, log >>
    /\ UNCHANGED << now, hostState, running, cancel, gens, ctxDone, rfh, result, pstop,
                    pinger, nextSeq, sentAt, replied, hist, probesLeft, loopsLeft >>
    /\ UNCHANGED aside
    /\ peerState' = peerState

\* mutant of Delivered: a second reply for s is handed to OnRecv again
DeliveredForgotten(done, s) == done

\* the sequence numbers whose reply went to OnRecv: the pinger hands a further
\* reply for s to OnDuplicateRecv, which RunForHost does not set
Delivered(done, s) == done \cup {s}

\* OnRecv, entry: seq := pkt.Seq; rtt := pkt.Rtt; now := time.Now()
RecvBegin(g, s) ==
    /\ pinger[g].pc = "idle"
    /\ ~pstop[g]
    /\ s < nextSeq[g]
    /\ s \notin replied[g]
    /\ replied' = [replied EXCEPT ![g] = Delivered(@, s)]
    /\ pinger' = [pinger EXCEPT ![g] =
                     [PingerAt("recv") EXCEPT !.seq = s, !.rtt = now - sentAt[g][s],
                                              !.now = now]]
    /\ UNCHANGED << now, buf, hostState, running, cancel, gens, ctxDone, rfh, result,
                    pstop, nextSeq, sentAt, timer, pends, own, log, lastOp, hist,
                    probesLeft, loopsLeft >>
    /\ UNCHANGED aside
    /\ UNCHANGED peer

\* mutant of StopTimer: the timer is left as it is
StopTimerNot(st) == st

\* p.timer.Stop(): a timer that has not expired will not; one that has is not
\* affected
StopTimer(st) == IF st = "armed" THEN "stopped" ELSE st

\* OnRecv, the locked section: look up, stop the timer, delete
RecvLock(g) ==
    /\ pinger[g].pc = "recv"
    /\ LET s == pinger[g].seq
           had == s \in DOMAIN pends[g]
       IN  /\ timer' = IF had THEN [timer EXCEPT ![g][s] = StopTimer(@)] ELSE timer
           /\ pends' = [pends EXCEPT ![g] = MapDel(@, s)]
           /\ pinger' = [pinger EXCEPT ![g] =
                            [@ EXCEPT !.pc = "classify", !.had = had,
                                      !.pushed = IF had THEN pends[g][s].pushed ELSE FALSE,
                                      !.idx = IF had THEN pends[g][s].idx ELSE NoIdx]]
           /\ log' = Logged(g, s, "recv", NoIdx, pinger[g].now)
    /\ UNCHANGED << now, buf, hostState, running, cancel, gens, ctxDone, rfh, result,
                    pstop, nextSeq, sentAt, replied, own, lastOp, hist, probesLeft,
                    loopsLeft >>
    /\ UNCHANGED aside
    /\ UNCHANGED peer

\* mutant of Classify: a late reply within the grace converts, LOSS or no LOSS
ClassifyNoPushed(rtt, had, pushed) ==
    IF rtt <= MaxRTT THEN "ok" ELSE IF rtt <= MaxRTT + GraceLate THEN "conv" ELSE "late"

\* mutant of Classify: a late reply converts its LOSS however late it is
ClassifyNoGrace(rtt, had, pushed) ==
    IF rtt <= MaxRTT THEN "ok" ELSE IF had /\ pushed THEN "conv" ELSE "late"

\* OnRecv after the unlock, the branch taken: on time, late within grace with a LOSS
\* to convert, or late
Classify(rtt, had, pushed) ==
    IF rtt <= MaxRTT
    THEN "ok"
    ELSE IF had /\ pushed /\ rtt <= MaxRTT + GraceLate
    THEN "conv"
    ELSE "late"

\* OnRecv after the unlock: the ring operation of the branch
RecvWrite(g) ==
    /\ pinger[g].pc = "classify"
    /\ LET p == pinger[g]
           branch == Classify(p.rtt, p.had, p.pushed)
       IN  /\ CASE branch = "ok" ->
                    RingPushBy(g, p.seq, Sample(p.now, MsOf(p.rtt), p.seq, SampleOK))
                [] branch = "conv" ->
                    RingUpdateBy(g, p.seq, p.idx, LateUpdate(MsOf(p.rtt), p.now))
                [] OTHER ->
                    RingPushBy(g, p.seq, Sample(p.now, MsOf(p.rtt), p.seq, SampleLate))
           /\ log' = Logged(g, p.seq, branch,
                            IF branch = "conv" THEN p.idx ELSE PushIdx(RingOf(g)), p.now)
    /\ pinger' = [pinger EXCEPT ![g] = PingerAt("idle")]
    /\ UNCHANGED << now, hostState, running, cancel, gens, ctxDone, rfh, result, pstop,
                    nextSeq, sentAt, timer, pends, replied, hist, probesLeft, loopsLeft >>
    /\ UNCHANGED aside
    /\ peerState' = peerState

\* ------------------------------------------------------------ the engine
NextEngine ==
    \/ StartPinging
    \/ StopPinging
    \/ \E g \in Loops : RfhStart(g)
    \/ \E g \in Loops : RfhSetupFail(g)
    \/ \E g \in Loops : RfhCancelStop(g)
    \/ \E g \in Loops : RfhCancelClean(g)
    \/ \E g \in Loops : RfhErr(g)
    \/ \E g \in Loops : GoExit(g)
    \/ \E g \in Loops : PingerFail(g)
    \/ \E g \in Loops : SendArm(g)
    \/ \E g \in Loops : SendRegister(g)
    \/ \E g \in Loops, s \in Seqs : TimerExpire(g, s)
    \/ \E g \in Loops, s \in Seqs : DeadlineFire(g, s)
    \/ \E g \in Loops, s \in Seqs : RecvBegin(g, s)
    \/ \E g \in Loops : RecvLock(g)
    \/ \E g \in Loops : RecvWrite(g)

Next ==
    \/ NextEngine
    \/ Tick

Spec == Init /\ [][Next]_vars

NextRestart ==
    \/ Next
    \/ restartPinging

SpecRestart == InitRestart /\ [][NextRestart]_vars

\* ------------------------------------------------------- the ring alone
\* a fresh ring of any capacity 1 .. RingMaxCap that nothing probes
InitRing ==
    /\ InitEngine
    /\ InitHostRing(RingMaxCap)
    /\ probesLeft = 0
    /\ loopsLeft = 0

\* Ring.Push of the next sample: the k-th push carries sequence number and time k
RingPush(st) ==
    /\ Len(hist) < MaxPush
    /\ LET k == Len(hist)
           smp == Sample(k, IF st = SampleLoss THEN LossMS ELSE k, k, st)
       IN  /\ RingPushBy(0, k, smp)
           /\ hist' = Append(hist, smp)
    /\ UNCHANGED << now, hostState, running, cancel, gens, ctxDone, rfh, result, pstop,
                    pinger, nextSeq, sentAt, timer, pends, replied, log, probesLeft,
                    loopsLeft >>
    /\ UNCHANGED aside
    /\ peerState' = peerState

NextRing == \E st \in {SampleOK, SampleLoss, SampleLate} : RingPush(st)

SpecRing == InitRing /\ [][NextRing]_vars

\* ------------------------------------------------ reading the history
\* the positions of log[g][s] that record event e
Where(g, s, e) == {i \in 1 .. Len(log[g][s]) : log[g][s][i].ev = e}

\* loop g recorded event e for probe s
Has(g, s, e) == Where(g, s, e) # {}

\* the ring index the (single) event e of probe s used
IdxOf(g, s, e) == log[g][s][CHOOSE i \in Where(g, s, e) : TRUE].idx

\* the slots of the ring, among the retained ones, last pushed for probe s of loop g
SlotsOf(g, s) == {i \in DOMAIN buf.data : i < buf.count /\ own[i] = << g, s >>}

C2_OnTimeOnlyOK ==
    \A g \in Loops : \A s \in Seqs :
        Has(g, s, "ok") =>
            /\ Cardinality(Where(g, s, "ok")) = 1
            /\ ~Has(g, s, "loss")
            /\ ~Has(g, s, "late")
            /\ ~Has(g, s, "conv")

\* the round-trip time the receive handler of probe s read (pkt.Rtt)
RttOf(g, s) == log[g][s][CHOOSE i \in Where(g, s, "recv") : TRUE].t - sentAt[g][s]

\* the last ring operation is the one the receive handler of probe s made
JustWrote(g, s) ==
    /\ lastOp.kind # "none" /\ lastOp.g = g /\ lastOp.s = s
    /\ Len(log[g][s]) > 0
    /\ log[g][s][Len(log[g][s])].ev \in {"ok", "conv", "late"}

\* ------------------------------------------------------------------ C3
\* C3: a probe that was sent, whose reply never arrives and whose loop is not
\* cancelled gets exactly one LOSS sample once MaxRTT has elapsed (its deadline
\* timer has run), and nothing else is recorded for its sequence number.
C3_LossOnceWithoutReply ==
    \A g \in Loops : \A s \in Seqs :
        (/\ s < nextSeq[g]
         /\ s \notin replied[g]
         /\ ~ctxDone[g]
         /\ timer[g][s] = "fired")
        => /\ Len(log[g][s]) = 1
           /\ log[g][s][1].ev = "loss"
           /\ log[g][s][1].t >= sentAt[g][s] + MaxRTT

\* ------------------------------------------------------------------ C4
\* C4: when the reply of a probe arrives with MaxRTT < rtt <= MaxRTT+GraceLate after
\* its LOSS sample was inserted, the ring ends with exactly one sample for that
\* sequence number: the slot of the LOSS, now LATE with the latency and the
\* timestamp of the reply; no second sample is pushed.  (Stated for a loop that is
\* not cancelled.)
C4_GraceConvertsInPlace ==
    \A g \in Loops : \A s \in Seqs :
        (/\ JustWrote(g, s)
         /\ ~ctxDone[g]
         /\ Has(g, s, "loss")
         /\ RttOf(g, s) > MaxRTT
         /\ RttOf(g, s) <= MaxRTT + GraceLate)
        => /\ ~Has(g, s, "late")
           /\ SlotsOf(g, s) = {IdxOf(g, s, "loss")}
           /\ buf.data[IdxOf(g, s, "loss")] =
                 Sample(sentAt[g][s] + RttOf(g, s), RttOf(g, s), s, SampleLate)

\* position of slot i in Snapshot(buf): 1 is the oldest retained sample
PosOf(i) == ((i - (buf.head - buf.count) + Cap(buf)) % Cap(buf)) + 1

\* ------------------------------------------------------------------ C5
\* C5 as claimed: after the reply of a probe arrived with rtt > MaxRTT+GraceLate the
\* ring contains two entries for its sequence number, the earlier LOSS sample and a
\* separate, later LATE sample.
C5_TwoEntriesBeyondGrace ==
    \A g \in Loops : \A s \in Seqs :
        (JustWrote(g, s) /\ ~ctxDone[g] /\ RttOf(g, s) > MaxRTT + GraceLate)
        => \E i, j \in SlotsOf(g, s) :
              /\ SlotsOf(g, s) = {i, j}
              /\ PosOf(i) < PosOf(j)
              /\ buf.data[i].State = SampleLoss
              /\ buf.data[j].State = SampleLate

\* C5 amended: when the reply of a probe arrives with rtt > MaxRTT+GraceLate after its
\* LOSS sample was inserted, the receive handler converts nothing and pushes a
\* separate LATE sample carrying the reply's latency and timestamp; the ring then
\* contains two entries for the sequence number, the slot of the earlier LOSS and
\* the later LATE, whenever the push did not overwrite the slot of the LOSS and no
\* other push had overwritten it before.
C5_LateBesideLoss ==
    \A g \in Loops : \A s \in Seqs :
        (JustWrote(g, s) /\ Has(g, s, "loss") /\ RttOf(g, s) > MaxRTT + GraceLate)
        => /\ Has(g, s, "late") /\ ~Has(g, s, "conv")
           /\ LET i == IdxOf(g, s, "loss")
                  j == IdxOf(g, s, "late")
              IN  /\ buf.data[j] =
                        Sample(sentAt[g][s] + RttOf(g, s), RttOf(g, s), s, SampleLate)
                  /\ (own[i] = << g, s >> /\ i # j) =>
                        /\ SlotsOf(g, s) = {i, j}
                        /\ PosOf(i) < PosOf(j)

\* C5 witness: a LOSS and, after a reply later than the grace, a LATE for one probe,
\* both retained
C5_Witness ==
    \E g \in Loops : \E s \in Seqs :
        /\ JustWrote(g, s) /\ Has(g, s, "loss") /\ RttOf(g, s) > MaxRTT + GraceLate
        /\ Cardinality(SlotsOf(g, s)) = 2
        /\ buf.data[IdxOf(g, s, "loss")].State = SampleLoss
        /\ buf.data[IdxOf(g, s, "late")].State = SampleLate

\* ------------------------------------------------------------------ C6
\* the scenario: MaxRTT = 300 ms, GraceLate = 100 ms, probe s sent at t = 0, its
\* deadline callback ran at t = 300, its reply arrived at t = 650 and was recorded
Scenario650(g, s) ==
    /\ sentAt[g][s] = 0
    /\ Len(log[g][s]) = 3
    /\ log[g][s][1].ev = "loss" /\ log[g][s][1].t = 300
    /\ log[g][s][2].ev = "recv" /\ log[g][s][2].t = 650
    /\ JustWrote(g, s)

\* C6 as claimed: in the scenario the LOSS of t = 300 is converted in place to
\* LATE(650 ms) at t = 650, leaving a single sample for the probe.
C6_Scenario650Converted ==
    \A g \in Loops : \A s \in Seqs :
        Scenario650(g, s) =>
            /\ log[g][s][3].ev = "conv"
            /\ SlotsOf(g, s) = {log[g][s][1].idx}
            /\ buf.data[log[g][s][1].idx] = Sample(650, 650, s, SampleLate)

\* C6 amended: in the scenario the reply at t = 650 ms is later than
\* MaxRTT+GraceLate = 400 ms, so the LOSS of t = 300 is not converted: a separate
\* LATE(650 ms) sample with timestamp 650 is pushed, and the ring holds two samples
\* for the probe, the slot of the LOSS of t = 300 and the LATE after it, unless a
\* push (this one or an earlier one) overwrote the slot of the LOSS.
C6_Scenario650SeparateLate ==
    \A g \in Loops : \A s \in Seqs :
        Scenario650(g, s) =>
            /\ log[g][s][3] = [ev |-> "late", idx |-> lastOp.idx, t |-> 650]
            /\ lastOp.kind = "push"
            /\ buf.data[lastOp.idx] = Sample(650, 650, s, SampleLate)
            /\ (own[log[g][s][1].idx] = << g, s >> /\ log[g][s][1].idx # lastOp.idx) =>
                  /\ SlotsOf(g, s) = {log[g][s][1].idx, lastOp.idx}
                  /\ PosOf(log[g][s][1].idx) < PosOf(lastOp.idx)

\* C6 witness: the scenario ended in a ring that holds both samples
C6_Witness ==
    \E g \in Loops : \E s \in Seqs :
        /\ Scenario650(g, s)
        /\ Cardinality(SlotsOf(g, s)) = 2
        /\ buf.data[log[g][s][1].idx] = Sample(300, LossMS, s, SampleLoss)
        /\ buf.data[lastOp.idx].MS = 650

\* ------------------------------------------------------------------ C7
\* C7: an in-place update aimed at a slot that was overwritten since is a no-op:
\* whenever UpdateAt applies its mutator, the slot still holds the sample of the
\* probe the update is for, so no sample of another sequence number is changed.
C7_StaleUpdateIsNoOp ==
    (lastOp.kind = "update" /\ lastOp.applied)
    => own[lastOp.idx] = << lastOp.g, lastOp.s >>

\* ------------------------------------------------------------------ C8
\* C8: after N pushes into a fresh ring of capacity C >= 1, Snapshot returns exactly
\* min(N, C) samples, the most recently pushed ones in push order, oldest first;
\* none of the N - min(N, C) oldest pushed samples is among them.
C8_SnapshotIsTail ==
    LET n == Len(hist)
        c == Cap(buf)
        k == IF n < c THEN n ELSE c
        snap == Snapshot(buf)
    IN  /\ Len(snap) = k
        /\ \A i \in 1 .. k : snap[i] = hist[n - k + i]
        /\ \A o \in 1 .. (n - k) : \A i \in 1 .. k : snap[i] # hist[o]

\* C8 witness: a ring of capacity 2 that wrapped around twice
C8_Witness ==
    /\ Cap(buf) = 2
    /\ Len(hist) = 5
    /\ buf.head = 1
    /\ Len(Snapshot(buf)) = 2

\* ------------------------------------------------------------------ C9
\* what loop g wrote into the ring for probe s: its pushes and in-place updates
IsRingEvent(e) == e.ev \in {"loss", "ok", "conv", "late"}

\* C9: once the loop was cancelled and RunForHost has returned, the loop inserts no
\* further sample into the ring and modifies none.
C9_QuietAfterCancel ==
    [][\A g \in Loops : \A s \in Seqs :
          result[g] = "canceled" =>
              SelectSeq(log'[g][s], IsRingEvent) = SelectSeq(log[g][s], IsRingEvent)]_vars

\* ----------------------------------------------------------------- C10
\* C10: once a newer loop for the host has been started, the handlers and timers of
\* a previous loop neither push to the host's ring nor update it.
C10_OneWriterPerRing ==
    [][\A g \in Loops : \A s \in Seqs :
          gens > g =>
              SelectSeq(log'[g][s], IsRingEvent) = SelectSeq(log[g][s], IsRingEvent)]_vars

\* ------------------------------------------- the ring under concurrency
\* sync.RWMutex: Lock waits for the writer and the readers to leave, RLock for the
\* writer
\* mutant of CanLock: the writer waits for nobody
CanLockAlways(m) == TRUE

CanLock(m) == m.w = 0 /\ m.r = 0

\* mutant of CanRLock: the reader does not wait for the writer
CanRLockAlways(m) == TRUE

CanRLock(m) == m.w = 0

\* the engine and the history of the ring's slots, which these operations leave alone
RingCallFrame == UNCHANGED << ctl, own, lastOp, reg >>

\* history: a write operation is complete (its deferred Unlock ran) leaving ring r
Committed(r) ==
    [last |-> r, seen |-> IF rd.pc = "idle" THEN commits.seen ELSE commits.seen \cup {r}]

\* Ring.Push(s), entry: r.mu.Lock().  The k-th write operation carries the sample
\* of sequence number and time k.
PushLock(w, st) ==
    /\ wr[w].pc = "idle"
    /\ writes < MaxWrites
    /\ CanLock(rmu)
    /\ rmu' = [rmu EXCEPT !.w = w]
    /\ writes' = writes + 1
    /\ wr' = [wr EXCEPT ![w] =
                 [WriterAt("store") EXCEPT
                     !.smp = Sample(writes, IF st = SampleLoss THEN LossMS ELSE writes,
                                    writes, st)]]
    /\ UNCHANGED << buf, rd, heap, held, commits >>
    /\ RingCallFrame

\* Ring.Push: the capacity test, idx := r.head; r.data[idx] = s
PushStore(w) ==
    /\ wr[w].pc = "store"
    /\ IF Cap(buf) = 0
       THEN /\ rmu' = [rmu EXCEPT !.w = 0]
            /\ wr' = [wr EXCEPT ![w] = WriterAt("idle")]
            /\ commits' = Committed(buf)
            /\ buf' = buf
       ELSE /\ buf' = [buf EXCEPT !.data[buf.head] = wr[w].smp]
            /\ wr' = [wr EXCEPT ![w].pc = "head", ![w].idx = buf.head]
            /\ UNCHANGED << rmu, commits >>
    /\ UNCHANGED << rd, heap, held, writes >>
    /\ RingCallFrame

\* Ring.Push: r.head = (r.head + 1) % len(r.data)
PushAdvance(w) ==
    /\ wr[w].pc = "head"
    /\ buf' = [buf EXCEPT !.head = (buf.head + 1) % Cap(buf)]
    /\ wr' = [wr EXCEPT ![w].pc = "count"]
    /\ UNCHANGED << rmu, rd, heap, held, commits, writes >>
    /\ RingCallFrame

\* Ring.Push: if r.count < len(r.data) { r.count++ }; return idx (Unlock)
PushCount(w) ==
    /\ wr[w].pc = "count"
    /\ buf' = [buf EXCEPT !.count = IF @ < Cap(buf) THEN @ + 1 ELSE @]
    /\ rmu' = [rmu EXCEPT !.w = 0]
    /\ wr' = [wr EXCEPT ![w] = WriterAt("idle")]
    /\ commits' = Committed(buf')
    /\ UNCHANGED << rd, heap, held, writes >>
    /\ RingCallFrame

\* the fields the mutator of OnRecv assigns, in its order
MutatorFields == << "State", "MS", "T" >>

\* Ring.UpdateAt(idx, update), entry: r.mu.Lock().  The update of the k-th write
\* operation carries the latency 100 + k and the time k.
UpdateLock(w, idx) ==
    /\ wr[w].pc = "idle"
    /\ writes < MaxWrites
    /\ CanLock(rmu)
    /\ rmu' = [rmu EXCEPT !.w = w]
    /\ writes' = writes + 1
    /\ wr' = [wr EXCEPT ![w] =
                 [WriterAt("guard") EXCEPT !.idx = idx,
                                           !.upd = LateUpdate(100 + writes, writes)]]
    /\ UNCHANGED << buf, rd, heap, held, commits >>
    /\ RingCallFrame

\* Ring.UpdateAt: if r.count == 0 || idx < 0 || idx >= len(r.data) { return }
UpdateGuard(w) ==
    /\ wr[w].pc = "guard"
    /\ IF UpdateApplies(buf, wr[w].idx)
       THEN /\ wr' = [wr EXCEPT ![w].pc = "mutate", ![w].f = 1]
            /\ UNCHANGED << rmu, commits >>
       ELSE /\ rmu' = [rmu EXCEPT !.w = 0]
            /\ wr' = [wr EXCEPT ![w] = WriterAt("idle")]
            /\ commits' = Committed(buf)
    /\ UNCHANGED << buf, rd, heap, held, writes >>
    /\ RingCallFrame

\* Ring.UpdateAt: update(&r.data[idx]), one assignment of the mutator; after the
\* last one the deferred Unlock
UpdateMutate(w) ==
    /\ wr[w].pc = "mutate"
    /\ LET fld == MutatorFields[wr[w].f]
           last == wr[w].f = Len(MutatorFields)
       IN  /\ buf' = [buf EXCEPT !.data[wr[w].idx][fld] = wr[w].upd[fld]]
           /\ IF last
              THEN /\ rmu' = [rmu EXCEPT !.w = 0]
                   /\ wr' = [wr EXCEPT ![w] = WriterAt("idle")]
                   /\ commits' = Committed(buf')
              ELSE /\ wr' = [wr EXCEPT ![w].f = @ + 1]
                   /\ UNCHANGED << rmu, commits >>
    /\ UNCHANGED << rd, heap, held, writes >>
    /\ RingCallFrame

\* what a slice shows: its first n elements of its backing array
Deref(ref) ==
    [i \in 1 .. ref.n |->
        IF ref.arr = LiveArr THEN buf.data[i - 1] ELSE heap[ref.arr][i]]

\* mutant of MakeDst: the result is a slice of r.data
MakeDstLive(hp, n) == [arr |-> LiveArr, n |-> n]

\* dst = make([]Sample, n): a slice of a new array
MakeDst(hp, n) == [arr |-> Len(hp) + 1, n |-> n]

\* Ring.Snapshot(nil), entry: r.mu.RLock()
SnapRLock ==
    /\ rd.pc = "idle"
    /\ Len(held) < MaxSnaps
    /\ CanRLock(rmu)
    /\ rmu' = [rmu EXCEPT !.r = @ + 1]
    /\ rd' = ReaderAt("count")
    /\ commits' = [commits EXCEPT !.seen = {commits.last}]
    /\ UNCHANGED << buf, wr, heap, held, writes >>
    /\ RingCallFrame

\* Ring.Snapshot: the empty case, else n := r.count, the allocation and start
SnapCount ==
    /\ rd.pc = "count"
    /\ IF buf.count = 0
       THEN /\ rd' = [rd EXCEPT !.pc = "return"]
            /\ heap' = heap
       ELSE LET dst == MakeDst(heap, buf.count) IN
            /\ rd' = [rd EXCEPT !.pc = "copy", !.n = buf.count, !.dst = dst, !.i = 0,
                                !.start = (buf.head - buf.count + Cap(buf)) % Cap(buf)]
            /\ heap' = IF dst.arr = Len(heap) + 1
                       THEN Append(heap, [i \in 1 .. buf.count |-> ZeroSample])
                       ELSE heap
    /\ UNCHANGED << buf, rmu, wr, held, commits, writes >>
    /\ RingCallFrame

\* Ring.Snapshot: dst[i] = r.data[(start+i)%len(r.data)]
SnapCopy ==
    /\ rd.pc = "copy"
    /\ rd.i < rd.n
    /\ LET v == buf.data[(rd.start + rd.i) % Cap(buf)] IN
          /\ heap' = IF rd.dst.arr = LiveArr
                     THEN heap ELSE [heap EXCEPT ![rd.dst.arr][rd.i + 1] = v]
          /\ buf' = IF rd.dst.arr = LiveArr
                    THEN [buf EXCEPT !.data[rd.i] = v] ELSE buf
    /\ rd' = [rd EXCEPT !.i = @ + 1]
    /\ UNCHANGED << rmu, wr, held, commits, writes >>
    /\ RingCallFrame

\* Ring.Snapshot: return dst (RUnlock); the caller keeps the slice
SnapReturn ==
    /\ \/ rd.pc = "return"
       \/ rd.pc = "copy" /\ rd.i = rd.n
    /\ rmu' = [rmu EXCEPT !.r = @ - 1]
    /\ held' = Append(held, [ref |-> rd.dst, val |-> Deref(rd.dst), seen |-> commits.seen])
    /\ rd' = ReaderAt("idle")
    /\ UNCHANGED << buf, wr, heap, commits, writes >>
    /\ RingCallFrame

NextConc ==
    \/ \E w \in ConcWriters, st \in {SampleOK, SampleLoss} : PushLock(w, st)
    \/ \E w \in ConcWriters : PushStore(w)
    \/ \E w \in ConcWriters : PushAdvance(w)
    \/ \E w \in ConcWriters : PushCount(w)
    \/ \E w \in ConcWriters, idx \in (0 - 1) .. RingMaxCap : UpdateLock(w, idx)
    \/ \E w \in ConcWriters : UpdateGuard(w)
    \/ \E w \in ConcWriters : UpdateMutate(w)
    \/ SnapRLock
    \/ SnapCount
    \/ SnapCopy
    \/ SnapReturn

\* a fresh ring that writers and a reader use concurrently
SpecConc == InitRing /\ [][NextConc]_vars

\* ----------------------------------------------------------------- C11
\* C11: every snapshot taken while writers are active equals the retained samples,
\* oldest first, of the ring as it was after some complete write operation (or
\* before the first): one of the rings committed between the snapshot's RLock and
\* its return.  It never shows a slot written without the cursor and count
\* advanced, nor a half-applied mutator.
C11_SnapshotAtomic ==
    \A k \in 1 .. Len(held) : \E c \in held[k].seen : held[k].val = Snapshot(c)

\* C11 witness: a snapshot showing a sample converted in place was returned, and the
\* next snapshot is being copied
C11_Witness ==
    /\ \E k \in 1 .. Len(held) : \E i \in 1 .. Len(held[k].val) :
          held[k].val[i].State = SampleLate
    /\ rd.pc = "copy"
    /\ writes > 0

\* ----------------------------------------------------------------- C12
\* C12: the sequence Snapshot returned is a copy: whatever is pushed or updated in
\* place afterwards, every snapshot returned earlier still shows the samples it
\* showed when it was returned.
C12_SnapshotIsCopy ==
    \A k \in 1 .. Len(held) : Deref(held[k].ref) = held[k].val

\* C12 witness: a returned snapshot contains a LOSS sample that was afterwards
\* converted to LATE in place in the ring
C12_Witness ==
    \E k \in 1 .. Len(held) : \E i \in 1 .. Len(held[k].val) :
        /\ held[k].val[i].State = SampleLoss
        /\ \E j \in DOMAIN buf.data :
              /\ buf.data[j].Seq = held[k].val[i].Seq
              /\ buf.data[j].State = SampleLate
        /\ \A w \in ConcWriters : wr[w].pc = "idle"

\* ----------------------------------------------------------------- C13
\* RunForHost of loop g has returned
Returned(g) == rfh[g] \in {"returned", "exited"}

C14_SetupFailureStartsNothing ==
    \A g \in Loops :
        result[g] = "setupErr" =>
            /\ Returned(g)
            /\ pinger[g].pc = "off"
            /\ nextSeq[g] = 0
            /\ DOMAIN pends[g] = {}
            /\ \A s \in Seqs : timer[g][s] = "none" /\ log[g][s] = << >>
            /\ buf = NewRing(Cap(buf))
            /\ lastOp = NoOp

\* C14 witness: the goroutine of a loop whose setup failed has ended, time has
\* passed and the window has stopped
C14_Witness ==
    \E g \in Loops :
        /\ result[g] = "setupErr" /\ rfh[g] = "exited"
        /\ now = 650 /\ ~running

\* ----------------------------------------------------------------- C15
\* C15: stopping is idempotent.  In every state of the window, those after a stop
\* and those in which every loop has ended by itself included, one call of
\* StopPinging can be made (it neither blocks nor fails), it leaves the running
\* flag false and the cancel handle cleared, and a second call right after it
\* changes nothing.
C15_StopIdempotent ==
    LET once == StopPingingOn(UIState)
    IN  /\ once.running = FALSE
        /\ once.cancel = 0
        /\ StopPingingOn(once) = once
        /\ ENABLED StopPinging

\* C15 witness: the window was stopped after its loop had ended by itself with an
\* error of the prober
C15_Witness ==
    \E g \in Loops :
        /\ rfh[g] = "exited" /\ result[g] = "err" /\ ~pstop[g]
        /\ ctxDone[g] /\ ~running /\ cancel = 0

\* ------------------------------------------------ two hosts, one context
\* mutant of BoundHost: the goroutines share the loop variable and see the last host
BoundHostLast(i) == 2

\* go func(h *Host) { ... }(h): the goroutine started in iteration i of the range
\* over the hosts gets the i-th host as its parameter
BoundHost(i) == i

\* the instant at which the window with two hosts is observed from
HostsStart == 300

\* the registry holds two hosts, added with the same ring capacity, not yet probed
InitHosts ==
    /\ InitEngine
    /\ \E c \in 1 .. MaxCap :
          /\ buf = NewRing(c)
          /\ own = [i \in 0 .. (c - 1) |-> NoOwner]
          /\ commits = [last |-> NewRing(c), seen |-> {}]
          /\ peerBuf = NewRing(c)
    /\ peerState = HostStopped
    /\ now = HostsStart
    /\ tgt = [g \in Loops |-> 0]
    /\ loopProbes = 1
    /\ probesLeft = HostsProbes
    /\ loopsLeft = 1

\* UI.StartPinging with two hosts listed: one context, a goroutine for each host
StartPingingAll ==
    /\ ~running
    /\ loopsLeft > 0
    /\ loopsLeft' = loopsLeft - 1
    /\ gens' = gens + 1
    /\ cancel' = gens + 1
    /\ running' = TRUE
    /\ hostState' = HostRunning
    /\ peerState' = HostRunning
    /\ tgt' = [g \in Loops |-> IF g \in {1, 2} THEN BoundHost(g) ELSE tgt[g]]
    /\ rfh' = [g \in Loops |-> IF g \in {1, 2} THEN "spawned" ELSE rfh[g]]
    /\ UNCHANGED << now, buf, peerBuf, ctxDone, result, pstop, pinger, nextSeq, sentAt,
                    timer, pends, replied, own, log, lastOp, hist, probesLeft, conc,
                    loopProbes, reg, probing, extra >>

\* UI.StopPinging with two hosts probed: cancel() ends the context of both loops
StopPingingAll ==
    /\ ctxDone' = [g \in Loops |->
                      ctxDone[g] \/ (running /\ cancel # 0 /\ tgt[g] # 0)]
    /\ cancel' = StopPingingOn(UIState).cancel
    /\ running' = StopPingingOn(UIState).running
    /\ UNCHANGED << now, buf, hostState, gens, rfh, result, pstop, pinger, nextSeq,
                    sentAt, timer, pends, replied, own, log, lastOp, hist, probesLeft,
                    loopsLeft, aside, peer >>

NextHosts ==
    \/ StartPingingAll
    \/ StopPingingAll
    \/ \E g \in Loops : RfhStart(g)
    \/ \E g \in Loops : RfhSetupFail(g)
    \/ \E g \in Loops : RfhCancelStop(g)
    \/ \E g \in Loops : RfhCancelClean(g)
    \/ \E g \in Loops : RfhErr(g)
    \/ \E g \in Loops : GoExit(g)
    \/ \E g \in Loops : PingerFail(g)
    \/ \E g \in Loops : SendArm(g)
    \/ \E g \in Loops : SendRegister(g)
    \/ \E g \in Loops, s \in Seqs : TimerExpire(g, s)
    \/ \E g \in Loops, s \in Seqs : DeadlineFire(g, s)
    \/ \E g \in Loops, s \in Seqs : RecvBegin(g, s)
    \/ \E g \in Loops : RecvLock(g)
    \/ \E g \in Loops : RecvWrite(g)
    \/ Tick

SpecHosts == InitHosts /\ [][NextHosts]_vars

\* ----------------------------------------------------------------- C16
\* the state goroutine g keeps for its loop: its position, result, prober, timers
\* and pending-reply records
LoopState(g) ==
    << rfh[g], result[g], pstop[g], pinger[g], nextSeq[g], timer[g], pends[g] >>

\* C16: the loops of two targets are isolated.  The goroutine started for the
\* first host is the only one whose step (send hook, receive handler, deadline
\* callback, cleanup) changes that host's ring or its own pending-reply records,
\* and likewise for the second host; and a step in which one loop ends with a setup
\* or runtime failure changes nothing of the other loop, which is neither
\* cancelled nor stopped by it.
C16_LoopsIsolated ==
    [][/\ buf' # buf => LoopState(1)' # LoopState(1) /\ LoopState(2)' = LoopState(2)
       /\ peerBuf' # peerBuf
             => LoopState(2)' # LoopState(2) /\ LoopState(1)' = LoopState(1)
       /\ \A g \in {1, 2} :
             LET h == 3 - g IN
                /\ pends[g]' # pends[g] => LoopState(h)' = LoopState(h)
                /\ (result[g] = "none" /\ result[g]' \in {"err", "setupErr"})
                      => /\ LoopState(h)' = LoopState(h)
                         /\ ctxDone[h]' = ctxDone[h]
                         /\ buf' = buf /\ peerBuf' = peerBuf]_vars

\* C16 witness: the loop of the first host recorded a sample and then ended with an
\* error of its prober, while the loop of the second host, which recorded a LOSS
\* in its own ring, goes on with a pending record
C16_Witness ==
    /\ buf.count > 0 /\ result[1] = "err"
    /\ rfh[2] = "select" /\ ~ctxDone[2] /\ ~pstop[2]
    /\ 0 \in DOMAIN pends[2] /\ pends[2][0].pushed
    /\ peerBuf.count > 0

\* --------------------------------------------------------- the registry
\* the probe engine and the ring of the engine, which the registry leaves alone
RegFrame == UNCHANGED << ctl, buf, own, lastOp, conc >>

\* history: a registry operation is complete (Unlock) leaving the content c
RegCommitted(c) ==
    [last |-> c, seen |-> IF ls.pc = "idle" THEN regHist.seen ELSE regHist.seen \cup {c}]

\* AddHost(name, addr, ringCap): h := &Host{...} with its fresh ring, before the lock
AddBuild ==
    /\ mt.pc = "idle"
    /\ regOps < MaxRegOps
    /\ regOps' = regOps + 1
    /\ LET h == Len(hobj) + 1 IN
          /\ hobj' = Append(hobj, NewHost(h))
          /\ rings' = Append(rings, NewRing(RegRingCap))
          /\ rlock' = Append(rlock, [w |-> 0, r |-> 0])
          /\ mt' = [MutatorAt("addLock") EXCEPT !.h = h]
    /\ UNCHANGED << hosts, harrs, mmu, ls, pu, lists, shots, regHist, lastReg, fault,
                    pushes >>
    /\ RegFrame

\* AddHost: m.mu.Lock()
AddLock ==
    /\ mt.pc = "addLock"
    /\ CanLock(mmu)
    /\ mmu' = [mmu EXCEPT !.w = 1]
    /\ mt' = [mt EXCEPT !.pc = "addColor", !.before = Content(hosts)]
    /\ UNCHANGED << hosts, harrs, hobj, rings, rlock, ls, pu, lists, shots, regHist,
                    lastReg, fault, regOps, pushes >>
    /\ RegFrame

\* AddHost: h.ColorI = len(m.hosts)
AddColor ==
    /\ mt.pc = "addColor"
    /\ hobj' = [hobj EXCEPT ![mt.h].ColorI = hosts.len]
    /\ mt' = [mt EXCEPT !.pc = "addAppend"]
    /\ UNCHANGED << hosts, harrs, rings, rlock, mmu, ls, pu, lists, shots, regHist,
                    lastReg, fault, regOps, pushes >>
    /\ RegFrame

\* AddHost: m.hosts = append(m.hosts, h), within the capacity; return h (Unlock)
AddAppend ==
    /\ mt.pc = "addAppend"
    /\ hosts.len < HostsCap
    /\ harrs' = [harrs EXCEPT ![hosts.arr][hosts.len] = mt.h]
    /\ hosts' = [hosts EXCEPT !.len = @ + 1]
    /\ mmu' = [mmu EXCEPT !.w = 0]
    /\ regHist' = RegCommitted(Append(mt.before, mt.h))
    /\ lastReg' = [op |-> "add", ok |-> TRUE, idx |-> hosts.len, before |-> mt.before]
    /\ mt' = MutatorAt("idle")
    /\ UNCHANGED << hobj, rings, rlock, ls, pu, lists, shots, fault, regOps, pushes >>
    /\ RegFrame

\* RemoveHostAt(idx): m.mu.Lock()
RemoveLock(idx) ==
    /\ mt.pc = "idle"
    /\ regOps < MaxRegOps
    /\ CanLock(mmu)
    /\ regOps' = regOps + 1
    /\ mmu' = [mmu EXCEPT !.w = 1]
    /\ mt' = [MutatorAt("remCheck") EXCEPT !.idx = idx, !.before = Content(hosts)]
    /\ UNCHANGED << hosts, harrs, hobj, rings, rlock, ls, pu, lists, shots, regHist,
                    lastReg, fault, pushes >>
    /\ RegFrame

\* mutant of OutOfRange: the last position is refused too
OutOfRangeLast(idx, n) == idx < 0 \/ idx >= n - 1

\* RemoveHostAt: idx < 0 || idx >= len(m.hosts)
OutOfRange(idx, n) == idx < 0 \/ idx >= n

\* RemoveHostAt: if idx < 0 || idx >= len(m.hosts) { return false }
RemoveCheck ==
    /\ mt.pc = "remCheck"
    /\ IF OutOfRange(mt.idx, hosts.len)
       THEN /\ mmu' = [mmu EXCEPT !.w = 0]
            /\ regHist' = RegCommitted(mt.before)
            /\ lastReg' = [op |-> "remove", ok |-> FALSE, idx |-> mt.idx,
                           before |-> mt.before]
            /\ mt' = MutatorAt("idle")
       ELSE /\ mt' = [mt EXCEPT !.pc = "remMove", !.i = mt.idx]
            /\ UNCHANGED << mmu, regHist, lastReg >>
    /\ UNCHANGED << hosts, harrs, hobj, rings, rlock, ls, pu, lists, shots, fault,
                    regOps, pushes >>
    /\ RegFrame

\* RemoveHostAt: append(m.hosts[:idx], m.hosts[idx+1:]...) moves the tail down, one
\* element at a time, in the same array
RemoveMove ==
    /\ mt.pc = "remMove"
    /\ mt.i < hosts.len - 1
    /\ harrs' = [harrs EXCEPT ![hosts.arr][mt.i] = harrs[hosts.arr][mt.i + 1]]
    /\ mt' = [mt EXCEPT !.i = @ + 1]
    /\ UNCHANGED << hosts, hobj, rings, rlock, mmu, ls, pu, lists, shots, regHist,
                    lastReg, fault, regOps, pushes >>
    /\ RegFrame

\* mutant of Unlisted: removal releases the ring of the host it unlists
UnlistedReleased(objs, h) == [objs EXCEPT ![h].buf = NilRing]

\* what RemoveHostAt does to the Host it unlists: nothing; the object and its ring
\* stay as they are for whoever holds the pointer
Unlisted(objs, h) == objs

\* RemoveHostAt: m.hosts = the result of append, one shorter
RemoveShrink ==
    /\ mt.pc = "remMove"
    /\ mt.i = hosts.len - 1
    /\ hosts' = [hosts EXCEPT !.len = @ - 1]
    /\ hobj' = Unlisted(hobj, mt.before[mt.idx + 1])
    /\ mt' = [mt EXCEPT !.pc = "remColor", !.i = 0]
    /\ UNCHANGED << harrs, rings, rlock, mmu, ls, pu, lists, shots, regHist,
                    lastReg, fault, regOps, pushes >>
    /\ RegFrame

\* mutant of Renumbered: the identity index is left as it was
NotRenumbered(objs, h, i) == objs

\* m.hosts[i].ColorI = i
Renumbered(objs, h, i) == [objs EXCEPT ![h].ColorI = i]

\* RemoveHostAt: for i := range m.hosts { m.hosts[i].ColorI = i }
RemoveColor ==
    /\ mt.pc = "remColor"
    /\ mt.i < hosts.len
    /\ hobj' = Renumbered(hobj, harrs[hosts.arr][mt.i], mt.i)
    /\ mt' = [mt EXCEPT !.i = @ + 1]
    /\ UNCHANGED << hosts, harrs, rings, rlock, mmu, ls, pu, lists, shots, regHist,
                    lastReg, fault, regOps, pushes >>
    /\ RegFrame

\* RemoveHostAt: return true (Unlock)
RemoveDone ==
    /\ mt.pc = "remColor"
    /\ mt.i = hosts.len
    /\ mmu' = [mmu EXCEPT !.w = 0]
    /\ regHist' = RegCommitted(Content(hosts))
    /\ lastReg' = [op |-> "remove", ok |-> TRUE, idx |-> mt.idx, before |-> mt.before]
    /\ mt' = MutatorAt("idle")
    /\ UNCHANGED << hosts, harrs, hobj, rings, rlock, ls, pu, lists, shots, fault,
                    regOps, pushes >>
    /\ RegFrame

\* ClearHosts: Lock; m.hosts = m.hosts[:0]; Unlock
ClearHosts ==
    /\ mt.pc = "idle"
    /\ regOps < MaxRegOps
    /\ CanLock(mmu)
    /\ regOps' = regOps + 1
    /\ hosts' = [hosts EXCEPT !.len = 0]
    /\ regHist' = RegCommitted(<< >>)
    /\ lastReg' = [op |-> "clear", ok |-> TRUE, idx |-> 0, before |-> Content(hosts)]
    /\ UNCHANGED << harrs, hobj, rings, rlock, mmu, mt, ls, pu, lists, shots, fault,
                    pushes >>
    /\ RegFrame

\* the hosts a list shows: the first n pointers of its array
ListDeref(ref) == [i \in 1 .. ref.n |-> harrs[ref.arr][i - 1]]

\* mutant of MakeOut: the list is the registry's own slice
MakeOutAlias(as, hs) == [arr |-> hs.arr, n |-> hs.len]

\* out := make([]*Host, len(m.hosts)): a slice of a new array
MakeOut(as, hs) == [arr |-> Len(as) + 1, n |-> hs.len]

\* Hosts(), entry: m.mu.RLock()
HostsRLock ==
    /\ ls.pc = "idle"
    /\ Len(lists) < MaxLists
    /\ CanRLock(mmu)
    /\ mmu' = [mmu EXCEPT !.r = @ + 1]
    /\ ls' = ListerAt("make")
    /\ regHist' = [regHist EXCEPT !.seen = {regHist.last}]
    /\ UNCHANGED << hosts, harrs, hobj, rings, rlock, mt, pu, lists, shots, lastReg,
                    fault, regOps, pushes >>
    /\ RegFrame

\* Hosts(): out := make([]*Host, len(m.hosts))
HostsMake ==
    /\ ls.pc = "make"
    /\ LET out == MakeOut(harrs, hosts) IN
          /\ ls' = [ls EXCEPT !.pc = "copy", !.out = out, !.i = 0]
          /\ harrs' = IF out.arr = Len(harrs) + 1
                      THEN Append(harrs, [i \in 0 .. (out.n - 1) |-> NilHost])
                      ELSE harrs
    /\ UNCHANGED << hosts, hobj, rings, rlock, mmu, mt, pu, lists, shots, regHist,
                    lastReg, fault, regOps, pushes >>
    /\ RegFrame

\* the elements copy(out, m.hosts) copies: min(len(out), len(m.hosts))
CopyLen == IF ls.out.n < hosts.len THEN ls.out.n ELSE hosts.len

\* Hosts(): copy(out, m.hosts), one element
HostsCopy ==
    /\ ls.pc = "copy"
    /\ ls.i < CopyLen
    /\ harrs' = [harrs EXCEPT ![ls.out.arr][ls.i] = harrs[hosts.arr][ls.i]]
    /\ ls' = [ls EXCEPT !.i = @ + 1]
    /\ UNCHANGED << hosts, hobj, rings, rlock, mmu, mt, pu, lists, shots, regHist,
                    lastReg, fault, regOps, pushes >>
    /\ RegFrame

\* Hosts(): return out (RUnlock); the caller starts to range over the list.  The
\* history keeps what the list showed at the return: the hosts and their fields.
HostsReturn ==
    /\ ls.pc = "copy"
    /\ ls.i >= CopyLen
    /\ mmu' = [mmu EXCEPT !.r = @ - 1]
    /\ lists' = Append(lists,
                   [ref  |-> ls.out,
                    val  |-> ListDeref(ls.out),
                    objs |-> [i \in 1 .. ls.out.n |->
                                 IF ListDeref(ls.out)[i] = NilHost
                                 THEN NewHost(NilHost) ELSE hobj[ListDeref(ls.out)[i]]],
                    seen |-> regHist.seen])
    /\ ls' = [ls EXCEPT !.pc = "range", !.i = 0]
    /\ UNCHANGED << hosts, harrs, hobj, rings, rlock, mt, pu, shots, regHist, lastReg,
                    fault, regOps, pushes >>
    /\ RegFrame

\* for _, host := range list { host.buf.Snapshot(nil) ... }: the next host of the
\* list and, inside Snapshot, r.mu.RLock(); a nil host or ring is a panic
SnapHostRLock ==
    /\ ls.pc = "range"
    /\ ls.i < ls.out.n
    /\ LET h == ListDeref(ls.out)[ls.i + 1] IN
          IF h = NilHost \/ hobj[h].buf = NilRing
          THEN /\ fault' = TRUE
               /\ ls' = ListerAt("idle")
               /\ rlock' = rlock
          ELSE /\ CanRLock(rlock[hobj[h].buf])
               /\ rlock' = [rlock EXCEPT ![hobj[h].buf].r = @ + 1]
               /\ ls' = [ls EXCEPT !.pc = "snap"]
               /\ fault' = fault
    /\ UNCHANGED << hosts, harrs, hobj, rings, mmu, mt, pu, lists, shots, regHist,
                    lastReg, regOps, pushes >>
    /\ RegFrame

\* Snapshot of the host's ring: the copy and the return (RUnlock)
SnapHostReturn ==
    /\ ls.pc = "snap"
    /\ LET h == ListDeref(ls.out)[ls.i + 1]
           r == hobj[h].buf
       IN  /\ shots' = Append(shots, [h |-> h, val |-> Snapshot(rings[r]),
                                      pushed |-> pushes,
                                      listed |-> \E i \in 1 .. hosts.len :
                                                    Content(hosts)[i] = h])
           /\ rlock' = [rlock EXCEPT ![r].r = @ - 1]
    /\ ls' = [ls EXCEPT !.pc = "range", !.i = @ + 1]
    /\ UNCHANGED << hosts, harrs, hobj, rings, mmu, mt, pu, lists, regHist, lastReg,
                    fault, regOps, pushes >>
    /\ RegFrame

\* the range over the list ends
RangeDone ==
    /\ ls.pc = "range"
    /\ ls.i = ls.out.n
    /\ ls' = ListerAt("idle")
    /\ UNCHANGED << hosts, harrs, hobj, rings, rlock, mmu, mt, pu, lists, shots,
                    regHist, lastReg, fault, regOps, pushes >>
    /\ RegFrame

\* the host the probe loop was started for: the h of RunForHost(ctx, h)
LoopHost == 1

\* the probe loop: h.buf.Push(sample), entry: r.mu.Lock(); a nil ring is a panic
LoopPushLock ==
    /\ pu = "idle"
    /\ pushes < MaxRegPushes
    /\ IF hobj[LoopHost].buf = NilRing
       THEN /\ fault' = TRUE
            /\ pushes' = MaxRegPushes
            /\ UNCHANGED << rlock, pu >>
       ELSE /\ CanLock(rlock[hobj[LoopHost].buf])
            /\ rlock' = [rlock EXCEPT ![hobj[LoopHost].buf].w = 1]
            /\ pu' = "push"
            /\ UNCHANGED << fault, pushes >>
    /\ UNCHANGED << hosts, harrs, hobj, rings, mmu, mt, ls, lists, shots, regHist,
                    lastReg, regOps >>
    /\ RegFrame

\* the probe loop: the push itself and the return (Unlock); the k-th push carries
\* an OK sample of sequence number, latency and time k
LoopPushDone ==
    /\ pu = "push"
    /\ rings' = [rings EXCEPT ![hobj[LoopHost].buf] =
                    PushRing(@, Sample(pushes, pushes, pushes, SampleOK))]
    /\ rlock' = [rlock EXCEPT ![hobj[LoopHost].buf].w = 0]
    /\ pushes' = pushes + 1
    /\ pu' = "idle"
    /\ UNCHANGED << hosts, harrs, hobj, mmu, mt, ls, lists, shots, regHist, lastReg,
                    fault, regOps >>
    /\ RegFrame

NextReg ==
    \/ AddBuild
    \/ AddLock
    \/ AddColor
    \/ AddAppend
    \/ \E idx \in (0 - 1) .. (RegHosts + 1) : RemoveLock(idx)
    \/ RemoveCheck
    \/ RemoveMove
    \/ RemoveShrink
    \/ RemoveColor
    \/ RemoveDone
    \/ ClearHosts
    \/ HostsRLock
    \/ HostsMake
    \/ HostsCopy
    \/ HostsReturn
    \/ SnapHostRLock
    \/ SnapHostReturn
    \/ RangeDone
    \/ LoopPushLock
    \/ LoopPushDone

\* the registry with its first hosts, changed by the window while a goroutine
\* lists the hosts and reads their rings and the loop of the first host pushes
InitRegistry ==
    /\ InitEngine
    /\ InitHostRing(1)
    /\ probesLeft = 0
    /\ loopsLeft = 0

SpecReg == InitRegistry /\ [][NextReg]_vars

\* ----------------------------------------------------------------- C17
\* s without its element at position i (counted from 0)
RemoveAt(s, i) == [k \in 1 .. (Len(s) - 1) |-> IF k <= i THEN s[k] ELSE s[k + 1]]

\* C17: after any sequence of add, remove-by-position and clear operations the
\* identity indices are gap-free and equal to position: the i-th listed host has
\* ColorI = i for i in 0..count-1.  An add puts the new host last, a clear leaves
\* no host, and a removal leaves the other hosts in their order (a removal at a
\* position outside the list changes nothing).
C17_IndicesArePositions ==
    mt.pc = "idle" =>
        /\ \A i \in 1 .. hosts.len : hobj[Content(hosts)[i]].ColorI = i - 1
        /\ lastReg.op = "add" =>
              Content(hosts) = Append(lastReg.before, Len(hobj))
        /\ lastReg.op = "clear" => Content(hosts) = << >>
        /\ (lastReg.op = "remove" /\ lastReg.ok) =>
              Content(hosts) = RemoveAt(lastReg.before, lastReg.idx)
        /\ (lastReg.op = "remove" /\ ~lastReg.ok) => Content(hosts) = lastReg.before

\* C17 witness: a host was removed from the front of a list of three, so the two
\* behind it moved down and were renumbered
C17_Witness ==
    /\ mt.pc = "idle"
    /\ lastReg.op = "remove" /\ lastReg.ok /\ lastReg.idx = 0
    /\ Len(lastReg.before) = 3
    /\ hosts.len = 2

\* ----------------------------------------------------------------- C18
\* C18: a list Hosts() returned is a copy of its own: whatever is added, removed
\* (which compacts the registry's array in place) or cleared afterwards, the list
\* keeps its length and the host it showed at each position.
C18_ListIsCopy ==
    \A k \in 1 .. Len(lists) : ListDeref(lists[k].ref) = lists[k].val

\* C18 witness: a list of the first hosts was returned and then the host at its
\* front was removed from the registry
C18_Witness ==
    \E k \in 1 .. Len(lists) :
        /\ lastReg.op = "remove" /\ lastReg.ok /\ lastReg.idx = 0
        /\ lastReg.before = lists[k].val
        /\ Len(lists[k].val) = RegHosts
        /\ mt.pc = "idle"

\* ----------------------------------------------------------------- C19
\* C19: a list obtained while hosts are added and removed is the registry content
\* as a complete operation left it (before or after each concurrent add or
\* remove, never in between), and every host in it is complete when the list is
\* returned: it has its name, its address, its ring and its identity index, the
\* position it is listed at.
C19_ListedHostsComplete ==
    \A k \in 1 .. Len(lists) :
        /\ lists[k].val \in lists[k].seen
        /\ \A i \in 1 .. Len(lists[k].val) :
              /\ lists[k].val[i] # NilHost
              /\ lists[k].objs[i].Name # 0
              /\ lists[k].objs[i].Addr # 0
              /\ lists[k].objs[i].buf # NilRing
              /\ lists[k].objs[i].ColorI = i - 1

\* C19 witness: a list was returned while AddHost had made its host but not yet
\* entered it, and the list does not show that host
C19_Witness ==
    /\ mt.pc = "addLock"
    /\ ls.pc = "range"
    /\ Len(lists) > 0
    /\ Len(lists[Len(lists)].val) = RegHosts
    /\ \A i \in 1 .. Len(lists[Len(lists)].val) : lists[Len(lists)].val[i] # mt.h

\* ----------------------------------------------------------------- C20
\* the steps that continue an operation somebody is inside of
ListerContinue == HostsMake \/ HostsCopy \/ HostsReturn \/ SnapHostReturn

\* the samples a ring of capacity c retains of the first n pushes of the loop
LoopTail(n, c) ==
    LET k == IF n < c THEN n ELSE c
    IN  [i \in 1 .. k |-> Sample(n - k + i - 1, n - k + i - 1, n - k + i - 1, SampleOK)]

\* C20: removing a host while its loop pushes and a reader snapshots its ring
\* neither fails nor deadlocks.  No nil host or ring is ever dereferenced; whoever
\* is inside a listing, a snapshot or a push can take its next step, and a reader
\* waiting for a ring waits only for a push that can finish; every snapshot the
\* reader obtained, of a host still listed or not, is the ring's retained samples.
C20_RemovalKeepsRingUsable ==
    /\ ~fault
    /\ ls.pc \in {"make", "copy", "snap"} => ENABLED ListerContinue
    /\ pu = "push" => ENABLED LoopPushDone
    /\ ls.pc = "range" => (ENABLED (SnapHostRLock \/ RangeDone) \/ pu = "push")
    /\ \A k \in 1 .. Len(shots) :
          shots[k].val = IF shots[k].h = LoopHost
                         THEN LoopTail(shots[k].pushed, RegRingCap) ELSE << >>

\* C20 witness: the host of the loop is being removed (its slot is already taken
\* from the list), the reader is inside the snapshot of its ring, into which the
\* loop has pushed
C20_Witness ==
    /\ mt.pc = "remColor" /\ mt.before[mt.idx + 1] = LoopHost
    /\ ls.pc = "snap" /\ ListDeref(ls.out)[ls.i + 1] = LoopHost
    /\ rings[LoopHost].count > 0
    /\ pushes < MaxRegPushes

\* ----------------------------------------------------------------- C21
\* C21: RemoveHostAt(position) returns true and leaves the registry one host
\* shorter exactly when 0 <= position < count; for every other position (negative
\* or >= count, an empty registry included) it returns false and neither its entry
\* (the lock) nor its return changes the listed hosts, their order or their
\* identity indices.
C21_RemoveRangeChecked ==
    [][ /\ (mt.pc = "idle" /\ mt'.pc = "remCheck")
            => /\ Content(hosts') = Content(hosts)
               /\ hobj' = hobj
        /\ (mt.pc = "remCheck" /\ mt'.pc = "idle")
            => /\ ~(0 <= mt.idx /\ mt.idx < Len(mt.before))
               /\ lastReg'.op = "remove" /\ ~lastReg'.ok
               /\ Content(hosts') = mt.before
               /\ hobj' = hobj
        /\ (mt.pc = "remCheck" /\ mt'.pc = "remMove")
            => (0 <= mt.idx /\ mt.idx < Len(mt.before))
        /\ (mt.pc = "remColor" /\ mt'.pc = "idle")
            => /\ 0 <= mt.idx /\ mt.idx < Len(mt.before)
               /\ lastReg'.op = "remove" /\ lastReg'.ok
               /\ Len(Content(hosts')) = Len(mt.before) - 1
      ]_vars

\* a removal at the position just past the last host of a registry that has hosts
\* was refused, as the last of the operations on the registry
C21_Witness ==
    /\ mt.pc = "idle"
    /\ lastReg.op = "remove" /\ ~lastReg.ok
    /\ lastReg.before # << >>
    /\ lastReg.idx = Len(lastReg.before)
    /\ regOps = MaxRegOps

\* ------------------------------------------------- the options of the loop
\* the positions of the interval slider tried (its range is 100..1000)
SliderValues == {100, 150, 500, 1000}

\* the durations, in ms, a caller of RunForHost puts in a ProbingBackend
GivenDurations == {0 - 1, 0, 50, 100, 300, 1000}

\* maxDur(a, b)
maxDur(a, b) == IF a > b THEN a ELSE b

\* UI.StartPinging: ui.backend = ProbingBackend{Interval: slider, MaxRTT: maxDur(2 *
\* slider, 300 ms), GraceLate: 100 ms}
BackendOfUI(v) == [Interval |-> v, MaxRTT |-> maxDur(2 * v, 300), GraceLate |-> 100]

\* RunForHost, "sane defaults": Interval <= 0 becomes 1 s, MaxRTT <= 0 becomes
\* maxDur(3 * Interval, 150 ms), GraceLate <= 0 becomes 100 ms
WithDefaults(b) ==
    LET i == IF b.Interval <= 0 THEN 1000 ELSE b.Interval
    IN  [Interval  |-> i,
         MaxRTT    |-> IF b.MaxRTT <= 0 THEN maxDur(3 * i, 150) ELSE b.MaxRTT,
         GraceLate |-> IF b.GraceLate <= 0 THEN 100 ELSE b.GraceLate]

OptsFrame == UNCHANGED << now, buf, hostState, running, cancel, gens, ctxDone, rfh,
                          result, pstop, pinger, nextSeq, sentAt, timer, pends,
                          replied, own, log, lastOp, hist, probesLeft, loopsLeft,
                          conc, tgt, loopProbes, reg, peer, extra >>

\* UI.StartPinging, the backend it builds from the slider
StartPingingBackend(v) ==
    /\ backend' = BackendOfUI(v)
    /\ pb' = pb
    /\ OptsFrame

\* another caller of the package builds a ProbingBackend of its own
SetBackend(i, m, gl) ==
    /\ backend' = [Interval |-> i, MaxRTT |-> m, GraceLate |-> gl]
    /\ pb' = pb
    /\ OptsFrame

\* RunForHost on a copy of the backend (value receiver): the defaults
RfhDefaults ==
    /\ pb' = [given |-> backend, used |-> WithDefaults(backend), set |-> TRUE]
    /\ backend' = backend
    /\ OptsFrame

NextOpts ==
    \/ \E v \in SliderValues : StartPingingBackend(v)
    \/ \E i, m, gl \in GivenDurations : SetBackend(i, m, gl)
    \/ RfhDefaults

InitOpts ==
    /\ InitEngine
    /\ InitHostRing(1)
    /\ probesLeft = 0
    /\ loopsLeft = 0

SpecOpts == InitOpts /\ [][NextOpts]_vars

\* ----------------------------------------------------------------- C22
\* C22: when MaxRTT is not set (zero or negative), the deadline RunForHost derives
\* is max(2 x interval, 300 ms), the value the window computes for the same
\* interval when it sets MaxRTT itself.
C22_DefaultMaxRTT ==
    (pb.set /\ pb.given.MaxRTT <= 0)
        => /\ pb.used.MaxRTT = maxDur(2 * pb.used.Interval, 300)
           /\ pb.used.MaxRTT = BackendOfUI(pb.used.Interval).MaxRTT

\* ----------------------------------------------------------------- C23
\* C23: on a ring of capacity C >= 1 the k-th push (k from 0) returns k mod C, the
\* slot at the returned index holds the pushed sample right after the push, the
\* cursor is then (k+1) mod C and the count min(k+1, C).
C23_PushAtCursor ==
    LET n == Len(hist)
        c == Cap(buf)
    IN  /\ c >= 1
        /\ buf.head = n % c
        /\ buf.count = (IF n < c THEN n ELSE c)
        /\ n >= 1 => /\ lastOp.kind = "push"
                     /\ lastOp.idx = (n - 1) % c
                     /\ buf.data[lastOp.idx] = hist[n]

\* C23 witness: the fifth push on a ring of capacity 3 went to slot 1, after the
\* cursor wrapped
C23_Witness ==
    /\ Cap(buf) = 3
    /\ Len(hist) = 5
    /\ lastOp.kind = "push" /\ lastOp.idx = 1
    /\ buf.head = 2 /\ buf.count = 3

\* ----------------------------------------------------------------- C24
\* a host made by AddHost(name, addr, 0): its ring has no storage; the window
\* starts one loop for it
InitZero ==
    /\ InitEngine
    /\ HostRingOf(0)
    /\ probesLeft = MaxProbes
    /\ loopsLeft = 1

SpecZero == InitZero /\ [][Next]_vars

\* C24: a ring of capacity 0 is a permitted no-op: every Push returns the invalid
\* index -1 and leaves the ring as it was, every UpdateAt (with index -1 too) does
\* nothing, every Snapshot is empty; the probe loop bound to it goes through its
\* deadline and reply handling (no handler is stuck) and no sample is ever exposed.
C24_ZeroRingNoOp ==
    /\ buf = NewRing(0)
    /\ Snapshot(buf) = << >>
    /\ lastOp.kind = "push" => (lastOp.idx = NoIdx /\ ~lastOp.applied)
    /\ lastOp.kind = "update" => ~lastOp.applied
    /\ \A idx \in {NoIdx, 0, 1} : UpdateAt(buf, idx, LateUpdate(0, 0)) = buf
    /\ \A g \in Loops :
          /\ \A s \in DOMAIN pends[g] : pends[g][s].idx = NoIdx
          /\ \A s \in Seqs : \A i \in 1 .. Len(log[g][s]) : log[g][s][i].idx = NoIdx
          /\ \A s \in Seqs : timer[g][s] = "running" => ENABLED DeadlineFire(g, s)
          /\ pinger[g].pc = "recv" => ENABLED RecvLock(g)
          /\ pinger[g].pc = "classify" => ENABLED RecvWrite(g)

\* C24 witness: on the ring without storage probe 0 went through its deadline and
\* the conversion of a reply within the grace (UpdateAt with index -1), and
\* probe 1 through the push of an on-time reply
C24_Witness ==
    /\ Cap(buf) = 0
    /\ Has(1, 0, "loss") /\ Has(1, 0, "conv")
    /\ Has(1, 1, "ok")
    /\ pinger[1].pc = "idle"

\* ----------------------------------------------------------------- C25
\* C25: within one target the order of the samples in the ring is the order in
\* time of the events that own them: in every snapshot the timestamps are
\* non-decreasing from the oldest sample to the newest, under every interleaving
\* of deadline callbacks and receive handlers and after a LOSS was converted in
\* place to LATE.
C25_SnapshotTimeOrdered ==
    LET snap == Snapshot(buf)
    IN  \A i \in 1 .. (Len(snap) - 1) : snap[i].T <= snap[i + 1].T

\* ----------------------------------------------------------------- C26
\* C26: when the deadline fires for a sequence number s that has no reply yet, the
\* pending record of s is not removed: it stays in the tracker with pushed = true
\* and idx the index the push of the LOSS sample returned, until a reply for s is
\* handled or the loop is cancelled.
C26_RecordKeptAfterDeadline ==
    \A g \in Loops : \A s \in Seqs :
        (timer[g][s] = "fired" /\ ~Has(g, s, "recv") /\ ~ctxDone[g])
            => /\ s \in DOMAIN pends[g]
               /\ pends[g][s].pushed
               /\ Has(g, s, "loss")
               /\ pends[g][s].idx = IdxOf(g, s, "loss")

\* ----------------------------------------------------------------- C27
\* the receive handler of loop g for probe s has completed
RecvDone(g, s) == Has(g, s, "ok") \/ Has(g, s, "conv") \/ Has(g, s, "late")

\* C27: after the receive handler for sequence number s has completed, the
\* tracker holds no pending record for s and the deadline timer of s is stopped
\* (it is not pending: it was stopped or had expired before), whichever branch was
\* taken: on-time OK, conversion within the grace, or standalone LATE.  The same
\* holds from the end of the handler's locked section on.
C27_ResolvedAfterRecv ==
    \A g \in Loops : \A s \in Seqs :
        (RecvDone(g, s) \/ Has(g, s, "recv"))
            => /\ s \notin DOMAIN pends[g]
               /\ timer[g][s] \in {"stopped", "running", "fired"}
               /\ (timer[g][s] = "stopped" => ~Has(g, s, "loss"))

\* C27 witness: probe 0 ended as a standalone LATE with its timer stopped before
\* the callback ran, probe 1 as an on-time OK, both handlers complete
C27_Witness ==
    /\ Has(1, 0, "late") /\ timer[1][0] = "stopped"
    /\ Has(1, 1, "ok") /\ timer[1][1] = "stopped"
    /\ pinger[1].pc = "idle"
    /\ pends[1] = EmptyMap

\* ----------------------------------------------------------------- C28
\* the reply of probe s was looked up (the locked section of OnRecv) before any
\* LOSS was inserted for s, and its round-trip time is over MaxRTT
LateWithoutLoss(g, s) ==
    /\ log[g][s] # << >>
    /\ log[g][s][1].ev = "recv"
    /\ RttOf(g, s) > MaxRTT

\* C28: when a reply for s arrives with rtt > MaxRTT and no LOSS sample was
\* inserted for s (the timer was stopped before its callback ran, or no pending
\* record was found), the receive handler pushes one standalone LATE sample and no
\* LOSS is inserted for s afterwards: s ends with exactly one sample, in state
\* LATE, also when rtt is within MaxRTT + GraceLate.
C28_StandaloneLate ==
    \A g \in Loops : \A s \in Seqs :
        LateWithoutLoss(g, s)
            => \/ /\ Len(log[g][s]) = 1
                  /\ pinger[g].pc = "classify" /\ pinger[g].seq = s
                  /\ ~pinger[g].pushed
                  /\ Classify(pinger[g].rtt, pinger[g].had, pinger[g].pushed) = "late"
               \/ /\ Len(log[g][s]) = 2
                  /\ log[g][s][2].ev = "late"
                  /\ log[g][s][2].idx # NoIdx
                  /\ timer[g][s] # "armed"

\* C28 witness: the reply of probe 0 came 400 ms after the send, within the grace,
\* while its timer was still pending; its one sample is the LATE in the ring, and
\* the clock has moved on past the grace
C28_Witness ==
    /\ LateWithoutLoss(1, 0) /\ RttOf(1, 0) = MaxRTT + GraceLate
    /\ timer[1][0] = "stopped"
    /\ Len(log[1][0]) = 2
    /\ buf.count = 1
    /\ Snapshot(buf)[1].State = SampleLate /\ Snapshot(buf)[1].Seq = 0
    /\ now > sentAt[1][0] + MaxRTT + GraceLate

\* ----------------------------------------------------------------- C29
\* the instants around the two limits of a probe sent at 0: MaxRTT, MaxRTT +
\* GraceLate and one millisecond more
EdgeInstants == {0, 300, 400, 401}

\* time passes to the next of those instants
EdgeTick == TickOver(EdgeInstants)

NextEdge ==
    \/ NextEngine
    \/ EdgeTick

SpecEdge == Init /\ [][NextEdge]_vars

\* C29: the limits of the classification are inclusive: a reply with rtt = MaxRTT
\* is recorded as OK (not LATE); a reply with rtt = MaxRTT + GraceLate whose LOSS
\* was already inserted is reconciled by converting that LOSS in place (no
\* separate LATE); a reply with rtt = MaxRTT + GraceLate + 1 gives a separate LATE.
C29_LimitsInclusive ==
    \A g \in Loops : \A s \in Seqs :
        RecvDone(g, s)
            => /\ RttOf(g, s) = MaxRTT
                    => (Has(g, s, "ok") /\ ~Has(g, s, "late") /\ ~Has(g, s, "conv"))
               /\ (RttOf(g, s) = MaxRTT + GraceLate /\ log[g][s][1].ev = "loss")
                    => /\ Has(g, s, "conv") /\ ~Has(g, s, "late") /\ ~Has(g, s, "ok")
                       /\ IdxOf(g, s, "conv") = IdxOf(g, s, "loss")
               /\ RttOf(g, s) = MaxRTT + GraceLate + 1
                    => (Has(g, s, "late") /\ ~Has(g, s, "conv") /\ ~Has(g, s, "ok"))

\* ----------------------------------------------------------------- C30
\* C30: UpdateAt(idx, mutator) changes at most the slot idx: it does nothing when
\* the ring is empty or idx is outside [0, capacity), and otherwise applies the
\* mutator to the slot idx only; in every case the cursor, the count and all other
\* slots are as before, so a snapshot has the same number of samples in the same
\* order (of sequence numbers) before and after.  Stated of the step that ends an
\* UpdateAt, against the ring as the last complete write operation left it, which
\* is the ring the UpdateAt locked.
C30_UpdateTouchesOneSlot ==
    [][ \A w \in ConcWriters :
          (wr[w].pc \in {"guard", "mutate"} /\ wr'[w].pc = "idle")
            => LET before == commits.last
                   idx == wr[w].idx
                   outside == before.count = 0 \/ idx < 0 \/ idx >= Cap(before)
               IN  /\ buf'.head = before.head
                   /\ buf'.count = before.count
                   /\ \A i \in DOMAIN before.data :
                         i # idx => buf'.data[i] = before.data[i]
                   /\ outside => buf' = before
                   /\ ~outside => buf'.data[idx] = Mutate(before.data[idx], wr[w].upd)
                   /\ Len(Snapshot(buf')) = Len(Snapshot(before))
                   /\ \A k \in 1 .. Len(Snapshot(before)) :
                         Snapshot(buf')[k].Seq = Snapshot(before)[k].Seq
      ]_vars

\* C30 witness: on a ring of capacity 3 holding two samples an UpdateAt has
\* converted the older one and left the newer one, the cursor and the count
C30_Witness ==
    /\ Cap(buf) = 3 /\ buf.count = 2 /\ buf.head = 2
    /\ rmu.w = 0
    /\ commits.last = buf
    /\ buf.data[0].State = SampleLate
    /\ buf.data[1].State = SampleLoss

\* ----------------------------------------------------------------- C31
\* pinger.Timeout = 24 * time.Hour, in ms
PingerTimeout == 86400000

\* the instants of a loop left running for a day
LongInstants == {0, 300, 86400000}

LongTick == TickOver(LongInstants)

\* pinger.Run ends by itself: its Timeout has passed since it started (and sent
\* packet 0); it returns nil
PingerEnds(g) ==
    /\ pinger[g].pc = "idle"
    /\ ~pstop[g]
    /\ nextSeq[g] > 0
    /\ now >= sentAt[g][0] + PingerTimeout
    /\ pinger' = [pinger EXCEPT ![g] = PingerAt("ended")]
    /\ UNCHANGED << now, buf, hostState, running, cancel, gens, ctxDone, rfh, result,
                    pstop, nextSeq, sentAt, timer, pends, replied, own, log, lastOp,
                    hist, probesLeft, loopsLeft >>
    /\ UNCHANGED aside
    /\ UNCHANGED peer

\* a loop left running for a day against a target that never answers
NextLong ==
    \/ StartPinging
    \/ StopPinging
    \/ \E g \in Loops : RfhStart(g)
    \/ \E g \in Loops : RfhSetupFail(g)
    \/ \E g \in Loops : RfhCancelStop(g)
    \/ \E g \in Loops : RfhCancelClean(g)
    \/ \E g \in Loops : RfhErr(g)
    \/ \E g \in Loops : GoExit(g)
    \/ \E g \in Loops : PingerFail(g)
    \/ \E g \in Loops : SendArm(g)
    \/ \E g \in Loops : SendRegister(g)
    \/ \E g \in Loops, s \in Seqs : TimerExpire(g, s)
    \/ \E g \in Loops, s \in Seqs : DeadlineFire(g, s)
    \/ \E g \in Loops : PingerEnds(g)
    \/ LongTick

SpecLong == Init /\ [][NextLong]_vars

\* C31: the probe loop is unbounded: RunForHost returns only because of
\* cancellation or because the prober failed (or could not be set up), and what it
\* returns is the cancellation error or a non-nil error, never nil, also when
\* pinger.Run ends by itself without error on reaching its overall timeout.
C31_NeverReturnsNil ==
    \A g \in Loops :
        Returned(g)
            => /\ result[g] \in {"canceled", "err", "setupErr"}
               /\ ctxDone[g] \/ pinger[g].pc = "failed" \/ result[g] = "setupErr"

\* ----------------------------------------------------------------- C32
\* C32: the send hook registers the pending record of s before the deadline
\* callback or the receive handler of s can act on it: whenever the timer of s is
\* armed, no reply for s has been handled and the loop is not cancelled, the
\* tracker contains the record of s; hence a deadline callback that has run for s
\* under those conditions has pushed the LOSS of s, and no record is left behind
\* once the receive handler of s is done.
C32_RegisteredBeforeArmed ==
    \A g \in Loops : \A s \in Seqs :
        /\ (timer[g][s] = "armed" /\ ~Has(g, s, "recv") /\ ~ctxDone[g])
              => s \in DOMAIN pends[g]
        /\ (timer[g][s] = "fired" /\ ~Has(g, s, "recv") /\ ~ctxDone[g])
              => Has(g, s, "loss")
        /\ RecvDone(g, s) => s \notin DOMAIN pends[g]

\* ----------------------------------------------------------------- C33
\* C33: after RunForHost has returned for any reason, the prober failing without
\* a cancellation included, no deadline timer of that loop is armed and no pending
\* record remains (so that no LOSS can be inserted after the loop reported its
\* result).
C33_NothingArmedAfterReturn ==
    \A g \in Loops :
        Returned(g)
            => /\ \A s \in Seqs : timer[g][s] # "armed"
               /\ DOMAIN pends[g] = {}

\* ----------------------------------------------------------------- C34
\* C34: in every state of the ring each retained sample has a negative latency
\* (the -1 sentinel) if and only if its state is LOSS; samples in state OK or LATE
\* carry the non-negative round-trip time of a reply, also after a conversion in
\* place.
C34_NegativeIffLoss ==
    LET snap == Snapshot(buf)
    IN  \A i \in 1 .. Len(snap) :
           /\ (snap[i].MS < 0) <=> (snap[i].State = SampleLoss)
           /\ snap[i].State = SampleLoss => snap[i].MS = LossMS
           /\ snap[i].State \in {SampleOK, SampleLate} => snap[i].MS >= 0

\* C34 witness: the ring retains the LOSS of probe 0 converted to LATE with the
\* latency of the reply and, after it, the LOSS of probe 1 with the sentinel
C34_Witness ==
    /\ Len(Snapshot(buf)) = 2
    /\ Has(1, 0, "conv")
    /\ Snapshot(buf)[1] = Sample(400, 400, 0, SampleLate)
    /\ Snapshot(buf)[2].State = SampleLoss /\ Snapshot(buf)[2].Seq = 1
    /\ Snapshot(buf)[2].MS = LossMS

\* ----------------------------------------------------------------- C35
\* the pushes loop g made for probe s, in order
PushesOf(g, s) == SelectSeq(log[g][s], LAMBDA e : e.ev \in {"loss", "ok", "late"})

\* C35: for every sequence number s of one loop (sequence numbers unique, at most
\* one reply per s) the loop pushes at most one LOSS sample and at most two
\* samples in all for s, and never both an OK and a LATE sample for s.
C35_AtMostTwoPushes ==
    \A g \in Loops : \A s \in Seqs :
        /\ Cardinality(Where(g, s, "loss")) <= 1
        /\ Len(PushesOf(g, s)) <= 2
        /\ ~(Has(g, s, "ok") /\ Has(g, s, "late"))
        /\ Cardinality(Where(g, s, "ok")) + Cardinality(Where(g, s, "late"))
              + Cardinality(Where(g, s, "conv")) <= 1

\* C35 witness: probe 0 has its two pushes, a LOSS and then a LATE beyond the
\* grace; probe 1 has a LOSS and the OK of a reply handled at its deadline
C35_Witness ==
    /\ Len(PushesOf(1, 0)) = 2
    /\ PushesOf(1, 0)[1].ev = "loss" /\ PushesOf(1, 0)[2].ev = "late"
    /\ Len(PushesOf(1, 1)) = 2
    /\ Has(1, 1, "loss") /\ Has(1, 1, "ok")

\* ----------------------------------------------------------------- C36
\* the goroutine of loop g is inside RunForHost with nothing to make it return
LoopActive(g) ==
    rfh[g] = "select" /\ ~ctxDone[g] /\ pinger[g].pc \notin {"failed", "ended"}

\* every goroutine StartPinging started has ended or is in a loop that stays
Settled == \A g \in Loops : rfh[g] \in {"none", "exited"} \/ LoopActive(g)

\* C36: the run state of a target agrees with its loop: once all goroutines have
\* settled after any sequence of StartPinging, StopPinging and restartPinging, the
\* state is Running if and only if a probe loop for the target is active; after a
\* restart the end of the old loop does not leave the target marked Stopped while
\* the new loop runs.
C36_StateAgreesWithLoop ==
    Settled => ((hostState = HostRunning) <=> (\E g \in Loops : LoopActive(g)))

\* ------------------------------------------------ the locks of the engine
\* what these steps leave alone
LocksFrame == UNCHANGED << now, hostState, running, cancel, gens, ctxDone, rfh, result,
                           pstop, pinger, nextSeq, sentAt, timer, pends, replied, own,
                           log, lastOp, hist, probesLeft, loopsLeft, wr, rd, heap,
                           held, commits, writes, tgt, loopProbes, reg, probing, peer,
                           tracing, bw >>

\* OnSend: time.AfterFunc arms the timer of the packet
SendAfterFunc ==
    /\ pg.pc = "idle"
    /\ pg.s < MaxTimers
    /\ cx = "select"
    /\ cb' = [cb EXCEPT ![pg.s] = "armed"]
    /\ pg' = ProberAt("sendLock", pg.s)
    /\ UNCHANGED << buf, rmu, mu, cx, paint, regd >>
    /\ LocksFrame

\* OnSend: mu.Lock()
SendLock ==
    /\ pg.pc = "sendLock"
    /\ mu = NoHolder
    /\ mu' = ProberThread
    /\ pg' = ProberAt("sendLocked", pg.s)
    /\ UNCHANGED << buf, rmu, cb, cx, paint, regd >>
    /\ LocksFrame

\* OnSend: pends[seq] = &pending{...}; mu.Unlock()
SendUnlock ==
    /\ pg.pc = "sendLocked"
    /\ regd' = MapPut(regd, pg.s, PendingOf(TRUE, NoIdx, FALSE))
    /\ mu' = NoHolder
    /\ pg' = ProberAt("sent", pg.s)
    /\ UNCHANGED << buf, rmu, cb, cx, paint >>
    /\ LocksFrame

\* no reply comes for the packet, or the prober was stopped: the next packet
NoReply ==
    /\ pg.pc = "sent"
    /\ pg' = ProberAt("idle", pg.s + 1)
    /\ UNCHANGED << buf, rmu, mu, cb, cx, paint, regd >>
    /\ LocksFrame

\* a reply comes for the packet: OnRecv is called and reads the time
RecvCalled ==
    /\ pg.pc = "sent"
    /\ cx = "select"
    /\ pg' = ProberAt("recvLock", pg.s)
    /\ UNCHANGED << buf, rmu, mu, cb, cx, paint, regd >>
    /\ LocksFrame

\* OnRecv: mu.Lock()
RecvMuLock ==
    /\ pg.pc = "recvLock"
    /\ mu = NoHolder
    /\ mu' = ProberThread
    /\ pg' = ProberAt("recvLocked", pg.s)
    /\ UNCHANGED << buf, rmu, cb, cx, paint, regd >>
    /\ LocksFrame

\* mutant of RecvUnlocked: OnRecv keeps the tracker lock
RecvUnlockMissing(holder) == holder

\* the holder of mu after the mu.Unlock() of OnRecv
RecvUnlocked(holder) == NoHolder

\* OnRecv: the lookup, p.timer.Stop(), delete(pends, seq), mu.Unlock()
RecvMuUnlock ==
    /\ pg.pc = "recvLocked"
    /\ cb' = [cb EXCEPT ![pg.s] =
                 IF pg.s \in DOMAIN regd /\ @ = "armed" THEN "stopped" ELSE @]
    /\ regd' = MapDel(regd, pg.s)
    /\ mu' = RecvUnlocked(mu)
    /\ pg' = [ProberAt("recvRing", pg.s) EXCEPT
                 !.p = IF pg.s \in DOMAIN regd THEN regd[pg.s] ELSE NoPending]
    /\ UNCHANGED << buf, rmu, cx, paint >>
    /\ LocksFrame

\* OnRecv: h.buf.Push or h.buf.UpdateAt takes Ring.mu
RecvRingLock ==
    /\ pg.pc = "recvRing"
    /\ CanLock(rmu)
    /\ rmu' = [rmu EXCEPT !.w = RingWriterOf(ProberThread)]
    /\ pg' = [pg EXCEPT !.pc = "recvInRing"]
    /\ UNCHANGED << buf, mu, cb, cx, paint, regd >>
    /\ LocksFrame

\* OnRecv: the ring operation of the branch the round-trip time selects (Push of
\* OK, UpdateAt of a pushed LOSS, Push of LATE) writes and releases Ring.mu; the
\* next packet
RecvRingUnlock ==
    /\ pg.pc = "recvInRing"
    /\ \/ buf' = PushRing(buf, Sample(now, MsOf(0), pg.s, SampleOK))
       \/ /\ pg.p.had /\ pg.p.pushed
          /\ buf' = UpdateAt(buf, pg.p.idx, LateUpdate(MsOf(MaxRTT), now))
       \/ buf' = PushRing(buf, Sample(now, MsOf(MaxRTT), pg.s, SampleLate))
    /\ rmu' = [rmu EXCEPT !.w = 0]
    /\ pg' = ProberAt("idle", pg.s + 1)
    /\ UNCHANGED << mu, cb, cx, paint, regd >>
    /\ LocksFrame

\* the timer of packet s expires: its callback starts
CallbackStart(s) ==
    /\ cb[s] = "armed"
    /\ cb' = [cb EXCEPT ![s] = "lock"]
    /\ UNCHANGED << buf, rmu, mu, pg, cx, paint, regd >>
    /\ LocksFrame

\* the callback: mu.Lock()
CallbackLock(s) ==
    /\ cb[s] = "lock"
    /\ mu = NoHolder
    /\ mu' = CallbackOf(s)
    /\ cb' = [cb EXCEPT ![s] = "locked"]
    /\ UNCHANGED << buf, rmu, pg, cx, paint, regd >>
    /\ LocksFrame

\* the callback: p, ok := pends[seq]; without a record mu.Unlock() and return
CallbackLookup(s) ==
    /\ cb[s] = "locked"
    /\ IF s \in DOMAIN regd
       THEN /\ cb' = [cb EXCEPT ![s] = "push"]
            /\ UNCHANGED mu
       ELSE /\ cb' = [cb EXCEPT ![s] = "done"]
            /\ mu' = NoHolder
    /\ UNCHANGED << buf, rmu, pg, cx, paint, regd >>
    /\ LocksFrame

\* the callback: h.buf.Push takes Ring.mu, with mu held
CallbackRingLock(s) ==
    /\ cb[s] = "push"
    /\ CanLock(rmu)
    /\ rmu' = [rmu EXCEPT !.w = RingWriterOf(CallbackOf(s))]
    /\ cb' = [cb EXCEPT ![s] = "pushing"]
    /\ UNCHANGED << buf, mu, pg, cx, paint, regd >>
    /\ LocksFrame

\* the callback: Push writes the LOSS sample and releases Ring.mu
CallbackRingUnlock(s) ==
    /\ cb[s] = "pushing"
    /\ buf' = PushRing(buf, Sample(now, LossMS, s, SampleLoss))
    /\ regd' = [regd EXCEPT ![s].idx = PushIdx(buf)]
    /\ rmu' = [rmu EXCEPT !.w = 0]
    /\ cb' = [cb EXCEPT ![s] = "pushed"]
    /\ UNCHANGED << mu, pg, cx, paint >>
    /\ LocksFrame

\* the callback: p.pushed = true; mu.Unlock()
CallbackUnlock(s) ==
    /\ cb[s] = "pushed"
    /\ regd' = [regd EXCEPT ![s].pushed = TRUE]
    /\ mu' = NoHolder
    /\ cb' = [cb EXCEPT ![s] = "done"]
    /\ UNCHANGED << buf, rmu, pg, cx, paint >>
    /\ LocksFrame

\* RunForHost: <-ctx.Done(), pinger.Stop()
CancelBegin ==
    /\ cx = "select"
    /\ cx' = "lock"
    /\ UNCHANGED << buf, rmu, mu, cb, pg, paint, regd >>
    /\ LocksFrame

\* RunForHost, cancelled: mu.Lock()
CancelLock ==
    /\ cx = "lock"
    /\ mu = NoHolder
    /\ mu' = CancelThread
    /\ cx' = "locked"
    /\ UNCHANGED << buf, rmu, cb, pg, paint, regd >>
    /\ LocksFrame

\* RunForHost, cancelled: the timers of the records are stopped, the tracker
\* emptied, mu.Unlock(), return ctx.Err()
CancelUnlock ==
    /\ cx = "locked"
    /\ cb' = [s \in LockSeqs |->
                 IF s \in DOMAIN regd /\ cb[s] = "armed" THEN "stopped" ELSE cb[s]]
    /\ regd' = << >>
    /\ mu' = NoHolder
    /\ cx' = "returned"
    /\ UNCHANGED << buf, rmu, pg, paint >>
    /\ LocksFrame

\* a paint routine: Ring.Snapshot takes the read lock
PaintRLock(r) ==
    /\ paint[r].pc = "idle"
    /\ paint[r].n < MaxSnaps
    /\ CanRLock(rmu)
    /\ rmu' = [rmu EXCEPT !.r = @ + 1]
    /\ paint' = [paint EXCEPT ![r] = PainterAt("reading", @.n + 1)]
    /\ UNCHANGED << buf, mu, cb, pg, cx, regd >>
    /\ LocksFrame

\* a paint routine: Snapshot copies and releases the read lock
PaintRUnlock(r) ==
    /\ paint[r].pc = "reading"
    /\ rmu' = [rmu EXCEPT !.r = @ - 1]
    /\ paint' = [paint EXCEPT ![r] = PainterAt("idle", @.n)]
    /\ UNCHANGED << buf, mu, cb, pg, cx, regd >>
    /\ LocksFrame

\* the steps of each thread
CallbackStep(s) ==
    \/ CallbackStart(s)
    \/ CallbackLock(s)
    \/ CallbackLookup(s)
    \/ CallbackRingLock(s)
    \/ CallbackRingUnlock(s)
    \/ CallbackUnlock(s)

ProberStep ==
    \/ SendAfterFunc
    \/ SendLock
    \/ SendUnlock
    \/ NoReply
    \/ RecvCalled
    \/ RecvMuLock
    \/ RecvMuUnlock
    \/ RecvRingLock
    \/ RecvRingUnlock

CancelStep ==
    \/ CancelBegin
    \/ CancelLock
    \/ CancelUnlock

PaintStep(r) ==
    \/ PaintRLock(r)
    \/ PaintRUnlock(r)

NextLocks ==
    \/ \E s \in LockSeqs : CallbackStep(s)
    \/ ProberStep
    \/ CancelStep
    \/ \E r \in Painters : PaintStep(r)

SpecLocks == InitRing /\ [][NextLocks]_vars

\* ----------------------------------------------------------------- C37
\* the threads and the lock each one is waiting for, if any
LockThreads ==
    {CallbackOf(s) : s \in LockSeqs} \cup {ProberThread, CancelThread}
        \cup {<< "paint", r >> : r \in Painters}

WantsMu(t) ==
    \/ t[1] = "cb" /\ cb[t[2]] = "lock"
    \/ t = ProberThread /\ pg.pc \in {"sendLock", "recvLock"}
    \/ t = CancelThread /\ cx = "lock"

WantsRing(t) ==
    \/ t[1] = "cb" /\ cb[t[2]] = "push"
    \/ t = ProberThread /\ pg.pc = "recvRing"

HoldsRing(t) ==
    \/ t[1] = "cb" /\ cb[t[2]] = "pushing"
    \/ t = ProberThread /\ pg.pc = "recvInRing"
    \/ t[1] = "paint" /\ paint[t[2]].pc = "reading"

\* thread t can take a step
CanStep(t) ==
    \/ t[1] = "cb" /\ ENABLED CallbackStep(t[2])
    \/ t = ProberThread /\ ENABLED ProberStep
    \/ t = CancelThread /\ ENABLED CancelStep
    \/ t[1] = "paint" /\ ENABLED PaintStep(t[2])

\* thread t waits for the ring lock and gets it: the lock is free, or a thread
\* inside the ring can take its step (no thread inside the ring waits for a lock)
RingComes(t) ==
    \/ CanLock(rmu)
    \/ \E h \in LockThreads : h # t /\ HoldsRing(h) /\ CanStep(h)

\* thread t waits for the tracker lock and gets it: the lock is free, or its
\* holder can take a step, or its holder waits for the ring lock and gets it
MuComes(t) ==
    \/ mu = NoHolder
    \/ /\ mu \in LockThreads
       /\ mu # t
       /\ CanStep(mu) \/ (WantsRing(mu) /\ RingComes(mu))

\* C37: the engine is deadlock-free: a thread that waits for the tracker lock or
\* for the ring lock is never in a state where the lock cannot come to it (every
\* locked section is a straight line, so a holder that can step releases), and no
\* thread holds the ring lock while it waits for the tracker lock.
C37_NoLockWait ==
    /\ \A t \in LockThreads : WantsMu(t) => MuComes(t)
    /\ \A t \in LockThreads : WantsRing(t) => RingComes(t)
    /\ \A t \in LockThreads : ~ (HoldsRing(t) /\ (WantsMu(t) \/ WantsRing(t)))

\* a deadline callback holds the tracker lock and waits for the ring lock that a
\* paint routine holds, while the prober's goroutine waits for the tracker lock
C37_Witness ==
    /\ \E s \in LockSeqs : cb[s] = "push" /\ mu = CallbackOf(s)
    /\ rmu.r > 0
    /\ pg.pc = "sendLock"
    /\ cx = "lock"

\* --------------------------------------------------- the Traceroute tab
\* One run of the traceroute wrapper: the subprocess and its two pipes, the
\* goroutines of Run (stdout reader, stderr logger, waiter, closer), the events
\* channel, and the consumer goroutine of the tab with the two buttons.
TraceFrame == UNCHANGED << now, buf, hostState, running, cancel, gens, ctxDone, rfh,
                           result, pstop, pinger, nextSeq, sentAt, timer, pends,
                           replied, own, log, lastOp, hist, probesLeft, loopsLeft,
                           conc, tgt, loopProbes, reg, probing, peer, locks, bw >>

\* emit: select { case events <- e: default: } on a channel of EventsCap slots
emit(q, e) == IF Len(q) < EventsCap THEN Append(q, e) ELSE q

\* start.OnClicked, the run is started: Run emits "start" and starts its four
\* goroutines, the tab is set running and the consumer goroutine started
StartClicked ==
    /\ tab.start
    /\ run.cmd = "none"
    /\ \E o \in 0 .. MaxLines, e \in 0 .. MaxErrLines :
          run' = [ctx |-> "live", cmd |-> "running", out |-> 0, err |-> 0,
                  outLeft |-> o, errLeft |-> e]
    /\ events' = emit(<< >>, "start")
    /\ wk' = [stdout |-> "scan", stderr |-> "scan", wait |-> "wait",
              closer |-> "wait", consumer |-> "range"]
    /\ tab' = TabAt(FALSE, TRUE, TRUE, "Running", 0)
    /\ UNCHANGED << evClosed, got >>
    /\ TraceFrame

\* start.OnClicked, nothing is started: the target is empty, or Run returns an
\* error (then the cancel function of the context is kept)
StartFails ==
    /\ tab.start
    /\ run.cmd = "none"
    /\ \/ tab' = [tab EXCEPT !.status = "Please enter target"]
       \/ tab' = [tab EXCEPT !.status = "Error", !.cancel = TRUE, !.rows = 0]
    /\ UNCHANGED << run, events, evClosed, wk, got >>
    /\ TraceFrame

\* stop.OnClicked: cancel() when there is one
StopClicked ==
    /\ tab.stop
    /\ IF tab.cancel
       THEN /\ run' = [run EXCEPT !.ctx = IF @ = "live" THEN "canceled" ELSE @]
            /\ tab' = [tab EXCEPT !.cancel = FALSE]
       ELSE UNCHANGED << run, tab >>
    /\ UNCHANGED << events, evClosed, wk, got >>
    /\ TraceFrame

\* the subprocess writes a line to its standard output
CmdPrintOut ==
    /\ run.cmd = "running"
    /\ run.outLeft > 0
    /\ run' = [run EXCEPT !.out = @ + 1, !.outLeft = @ - 1]
    /\ UNCHANGED << tab, events, evClosed, wk, got >>
    /\ TraceFrame

\* the subprocess writes a line to its standard error
CmdPrintErr ==
    /\ run.cmd = "running"
    /\ run.errLeft > 0
    /\ run' = [run EXCEPT !.err = @ + 1, !.errLeft = @ - 1]
    /\ UNCHANGED << tab, events, evClosed, wk, got >>
    /\ TraceFrame

\* the subprocess ends: by itself with status 0 or with an error status, or
\* killed by exec.CommandContext once the context is cancelled
CmdExit ==
    /\ run.cmd = "running"
    /\ \/ run' = [run EXCEPT !.cmd = "exited"]
       \/ run' = [run EXCEPT !.cmd = "failed"]
       \/ run.ctx = "canceled" /\ run' = [run EXCEPT !.cmd = "failed"]
    /\ UNCHANGED << tab, events, evClosed, wk, got >>
    /\ TraceFrame

\* the stdout reader: sc.Scan() gives a line, a hop line or another line
StdoutLine ==
    /\ wk.stdout = "scan"
    /\ run.out > 0
    /\ \E k \in {"hop", "log"} : events' = emit(events, k)
    /\ run' = [run EXCEPT !.out = @ - 1]
    /\ UNCHANGED << tab, evClosed, wk, got >>
    /\ TraceFrame

\* the stdout reader: sc.Scan() is false at the end of the pipe, or on a read
\* error once cmd.Wait has closed the pipe; sc.Err() emits "error"; wg.Done()
StdoutEnd ==
    /\ wk.stdout = "scan"
    /\ \/ /\ run.cmd \in {"exited", "failed"}
          /\ run.out = 0
          /\ UNCHANGED events
       \/ /\ wk.wait = "done"
          /\ events' = emit(events, "error")
    /\ wk' = [wk EXCEPT !.stdout = "done"]
    /\ UNCHANGED << tab, run, evClosed, got >>
    /\ TraceFrame

\* the stderr logger: a line is emitted as "log"
StderrLine ==
    /\ wk.stderr = "scan"
    /\ run.err > 0
    /\ events' = emit(events, "log")
    /\ run' = [run EXCEPT !.err = @ - 1]
    /\ UNCHANGED << tab, evClosed, wk, got >>
    /\ TraceFrame

\* the stderr logger: the end of the pipe; wg.Done()
StderrEnd ==
    /\ wk.stderr = "scan"
    /\ \/ run.cmd \in {"exited", "failed"} /\ run.err = 0
       \/ wk.wait = "done"
    /\ wk' = [wk EXCEPT !.stderr = "done"]
    /\ UNCHANGED << tab, run, events, evClosed, got >>
    /\ TraceFrame

\* the event the waiter emits when cmd.Wait() has returned
TerminalEvent(ctx, cmd) ==
    IF ctx = "canceled" THEN "done" ELSE IF cmd = "failed" THEN "error" ELSE "done"

\* the waiter: cmd.Wait() returns, the terminal event is emitted; wg.Done()
WaitReturns ==
    /\ wk.wait = "wait"
    /\ run.cmd \in {"exited", "failed"}
    /\ events' = emit(events, TerminalEvent(run.ctx, run.cmd))
    /\ wk' = [wk EXCEPT !.wait = "done"]
    /\ UNCHANGED << tab, run, evClosed, got >>
    /\ TraceFrame

\* the closer: wg.Wait() returns, close(events)
CloseEvents ==
    /\ wk.closer = "wait"
    /\ wk.stdout = "done" /\ wk.stderr = "done" /\ wk.wait = "done"
    /\ evClosed' = TRUE
    /\ wk' = [wk EXCEPT !.closer = "done"]
    /\ UNCHANGED << tab, run, events, got >>
    /\ TraceFrame

\* the tab after the consumer has handled an event of kind k on the main thread
Handled(t, k) ==
    CASE k = "hop" -> [t EXCEPT !.rows = @ + 1]
      [] k = "error" -> [t EXCEPT !.status = "Error"]
      [] k = "done" -> [t EXCEPT !.status = "Done.", !.start = TRUE, !.stop = FALSE]
      [] OTHER -> t

\* the consumer: for e := range ev receives an event and handles it
ConsumerEvent ==
    /\ wk.consumer = "range"
    /\ Len(events) > 0
    /\ tab' = Handled(tab, Head(events))
    /\ got' = got \cup {Head(events)}
    /\ events' = Tail(events)
    /\ UNCHANGED << run, evClosed, wk >>
    /\ TraceFrame

\* the consumer: the channel is closed and empty, the range loop ends
ConsumerEnd ==
    /\ wk.consumer = "range"
    /\ Len(events) = 0
    /\ evClosed
    /\ wk' = [wk EXCEPT !.consumer = "ended"]
    /\ UNCHANGED << tab, run, events, evClosed, got >>
    /\ TraceFrame

NextTrace ==
    \/ StartClicked
    \/ StartFails
    \/ StopClicked
    \/ CmdPrintOut
    \/ CmdPrintErr
    \/ CmdExit
    \/ StdoutLine
    \/ StdoutEnd
    \/ StderrLine
    \/ StderrEnd
    \/ WaitReturns
    \/ CloseEvents
    \/ ConsumerEvent
    \/ ConsumerEnd

SpecTrace == InitRing /\ [][NextTrace]_vars

\* ----------------------------------------------------------------- C38
\* C38: every traceroute run that started returns the tab to the idle state: when
\* the events channel has been closed and the consumer has drained it, a terminal
\* event ("done" or "error") was delivered to the consumer, Start is enabled and
\* Stop is disabled, whether the subprocess completed, was cancelled or exited
\* with an error, and also when the buffer was full as the terminal event was
\* emitted.
C38_TabIdleAfterRun ==
    wk.consumer = "ended" =>
        /\ got \cap {"done", "error"} # {}
        /\ tab.start
        /\ ~ tab.stop

\* ------------------------------------------------- the bandwidth samples
\* The ring of the bandwidth graph, statement by statement: push runs on the
\* goroutine that consumes the intervals, snapshot on the main thread inside
\* paint; mbpsRing has no lock.
MbpsFrame == UNCHANGED << now, buf, hostState, running, cancel, gens, ctxDone, rfh,
                          result, pstop, pinger, nextSeq, sentAt, timer, pends,
                          replied, own, log, lastOp, hist, probesLeft, loopsLeft,
                          conc, tgt, loopProbes, reg, probing, peer, locks, tracing >>

MbpsLen == Cardinality(DOMAIN mring.data)

\* the interval consumer: spGraph.AppendMbps(mbps) calls push with the time of
\* the call; push returns at once on a ring without slots
AppendMbps ==
    /\ mpush.pc = "idle"
    /\ appended < MaxAppends
    /\ appended' = appended + 1
    /\ \E v \in MbpsValues :
          mpush' = [pc |-> IF MbpsLen = 0 THEN "idle" ELSE "store",
                    s |-> mbpsSample(appended + 1, v)]
    /\ UNCHANGED << mring, mpaint, mshots >>
    /\ MbpsFrame

\* push: r.data[r.head] = s
MbpsStore ==
    /\ mpush.pc = "store"
    /\ mring' = [mring EXCEPT !.data[mring.head] = mpush.s]
    /\ mpush' = [mpush EXCEPT !.pc = "advance"]
    /\ UNCHANGED << mpaint, mshots, appended >>
    /\ MbpsFrame

\* push: r.head = (r.head + 1) % len(r.data)
MbpsAdvance ==
    /\ mpush.pc = "advance"
    /\ mring' = [mring EXCEPT !.head = (@ + 1) % MbpsLen]
    /\ mpush' = [mpush EXCEPT !.pc = "count"]
    /\ UNCHANGED << mpaint, mshots, appended >>
    /\ MbpsFrame

\* push: if r.count < len(r.data) { r.count++ }
MbpsCount ==
    /\ mpush.pc = "count"
    /\ mring' = [mring EXCEPT !.count = IF @ < MbpsLen THEN @ + 1 ELSE @]
    /\ mpush' = [mpush EXCEPT !.pc = "idle"]
    /\ UNCHANGED << mpaint, mshots, appended >>
    /\ MbpsFrame

\* paint: w.ring.snapshot(nil) begins; an empty ring gives dst[:0]
MbpsSnapBegin ==
    /\ mpaint.pc = "idle"
    /\ Len(mshots) < MaxPaints
    /\ IF mring.count = 0
       THEN /\ mshots' = Append(mshots, << >>)
            /\ UNCHANGED mpaint
       ELSE /\ mpaint' = [mpaint EXCEPT !.pc = "n"]
            /\ UNCHANGED mshots
    /\ UNCHANGED << mring, mpush, appended >>
    /\ MbpsFrame

\* snapshot: n := r.count; dst = make([]mbpsSample, n)
MbpsSnapCount ==
    /\ mpaint.pc = "n"
    /\ mpaint' = [mpaint EXCEPT !.pc = "start", !.n = mring.count,
                                !.dst = [k \in 1 .. mring.count |-> mbpsSample(ZeroTime, 0)]]
    /\ UNCHANGED << mring, mpush, mshots, appended >>
    /\ MbpsFrame

\* snapshot: start := (r.head - r.count + len(r.data)) % len(r.data)
MbpsSnapStart ==
    /\ mpaint.pc = "start"
    /\ mpaint' = [mpaint EXCEPT !.pc = "copy", !.i = 0,
                                !.start = (mring.head - mring.count + MbpsLen) % MbpsLen]
    /\ UNCHANGED << mring, mpush, mshots, appended >>
    /\ MbpsFrame

\* snapshot: dst[i] = r.data[(start+i)%len(r.data)]; i++; return dst after n
MbpsSnapCopy ==
    /\ mpaint.pc = "copy"
    /\ LET d == [mpaint.dst EXCEPT ![mpaint.i + 1] =
                     mring.data[(mpaint.start + mpaint.i) % MbpsLen]]
       IN  IF mpaint.i + 1 < mpaint.n
           THEN /\ mpaint' = [mpaint EXCEPT !.dst = d, !.i = @ + 1]
                /\ UNCHANGED mshots
           ELSE /\ mpaint' = [mpaint EXCEPT !.pc = "idle", !.dst = << >>, !.i = 0,
                                            !.n = 0, !.start = 0]
                /\ mshots' = Append(mshots, d)
    /\ UNCHANGED << mring, mpush, appended >>
    /\ MbpsFrame

NextMbps ==
    \/ AppendMbps
    \/ MbpsStore
    \/ MbpsAdvance
    \/ MbpsCount
    \/ MbpsSnapBegin
    \/ MbpsSnapCount
    \/ MbpsSnapStart
    \/ MbpsSnapCopy

SpecMbps == InitRing /\ [][NextMbps]_vars

\* ----------------------------------------------------------------- C39
\* C39: a snapshot of the bandwidth ring that paint takes while AppendMbps is
\* executing returns retained samples in insertion order, oldest first: each
\* sample of the snapshot is the one appended right after its predecessor, none
\* duplicated, skipped or out of order (the samples carry the rank of their
\* AppendMbps call as their time).
C39_SnapshotInOrder ==
    \A k \in 1 .. Len(mshots) :
        \A i \in 1 .. (Len(mshots[k]) - 1) : mshots[k][i + 1].T = mshots[k][i].T + 1

====
